---- MODULE Spec2Model ----
(***************************************************************************)
(* A model of the Excel viewer of the office preview application           *)
(* (src/unnamed/part_002, of which src/script.js is an earlier copy):      *)
(* the colour resolver, the number formatter, the style cascade, the       *)
(* per-cell renderer with border inference and text overflow, and the      *)
(* asynchronous file / sheet loading around them.                          *)
(*                                                                         *)
(* JavaScript strings that the code takes apart (colours, format codes)    *)
(* are sequences of one-character strings.  null / undefined are written   *)
(* as the empty sequence for strings and records, and as NoStyle for a     *)
(* style index.  Floating point numbers are exact rationals [n, d]: the     *)
(* results agree with the doubles of the code except where a double        *)
(* computation lands within rounding error of a tie of Math.round.         *)
(***************************************************************************)
EXTENDS Integers, Sequences, FiniteSets, TLC

VARIABLES
    themeColors,      \* slot -> base colour string (Null where the entry is null)
    fonts,            \* sequence of font records
    fills,            \* sequence of fill records
    borders,          \* sequence of border records
    cellXfs,          \* sequence of applied cell formats
    sharedStrings,    \* sequence of strings
    numFmts,          \* custom number formats: numFmtId -> format code
    currentMaxCol,    \* max column of the sheet being rendered
    currentColWidths, \* column -> Excel width of the sheet being rendered
    currentMDW,       \* max digit width of the default font, px
    sheetTabs,        \* the tab buttons: sequence of [sheet, zip, active]
    uploadWrapper,    \* the upload area: "show" or "hide"
    tableWrapper,     \* what the table wrapper element shows
    loads,            \* the handleFile calls in flight
    sheetLoads,       \* the loadSheet calls in flight
    call,             \* the last call observed: [fn, arg, out], Null for none
    pdfDoc,           \* PDFViewer: the PDFium document, [pageCount], Null for none
    pdfjsDoc,         \* PDFViewer: the PDF.js document, [pageCount], Null for none
    currentPage,      \* PDFViewer: the page number on show
    scale,            \* PDFViewer: the zoom factor
    viewerArea,       \* PDFViewer: the page elements of the viewer area, Null before
                      \* the first loadFile
    pdfTasks,         \* PDFViewer: the asynchronous calls in flight
    zoomEvents        \* the zoom events so far

\* the fields of the PDFViewer object and its calls in flight
pdfVars == <<pdfDoc, pdfjsDoc, currentPage, scale, viewerArea, pdfTasks, zoomEvents>>

\* the tables, the globals and the calls in flight of the spreadsheet script
xlsxVars == <<themeColors, fonts, fills, borders, cellXfs, sharedStrings, numFmts,
              currentMaxCol, currentColWidths, currentMDW, sheetTabs, uploadWrapper,
              tableWrapper, loads, sheetLoads, call>>

vars == <<themeColors, fonts, fills, borders, cellXfs, sharedStrings, numFmts,
          currentMaxCol, currentColWidths, currentMDW, sheetTabs, uploadWrapper,
          tableWrapper, loads, sheetLoads, call,
          pdfDoc, pdfjsDoc, currentPage, scale, viewerArea, pdfTasks, zoomEvents>>

\* JavaScript null / undefined, for strings, objects and lookups that miss.
Null == <<>>

(***************************************************************************)
(* Exact rational arithmetic, standing for the code's doubles.             *)
(***************************************************************************)
RECURSIVE GCD(_, _)
GCD(a, b) == IF b = 0 THEN (IF a < 0 THEN -a ELSE a) ELSE GCD(b, a % b)

Abs(a) == IF a < 0 THEN -a ELSE a

Frac(n, d) ==
    LET g == GCD(Abs(n), Abs(d))
        s == IF d < 0 THEN -1 ELSE 1
    IN  [n |-> (s * n) \div g, d |-> (s * d) \div g]

FInt(k) == [n |-> k, d |-> 1]

FAdd(a, b) ==
    LET g == GCD(a.d, b.d)
        l == (a.d \div g) * b.d
    IN  Frac(a.n * (l \div a.d) + b.n * (l \div b.d), l)

FNeg(a) == [n |-> -a.n, d |-> a.d]

FSub(a, b) == FAdd(a, FNeg(b))

FMul(a, b) ==
    LET g1 == GCD(Abs(a.n), b.d)
        g2 == GCD(Abs(b.n), a.d)
    IN  IF a.n = 0 \/ b.n = 0 THEN FInt(0)
        ELSE Frac((a.n \div g1) * (b.n \div g2), (a.d \div g2) * (b.d \div g1))

FDiv(a, b) == FMul(a, Frac(b.d, b.n))

FLess(a, b) == FSub(a, b).n < 0

FMax(a, b) == IF FLess(a, b) THEN b ELSE a

FMin(a, b) == IF FLess(a, b) THEN a ELSE b

\* Math.floor
FFloor(a) == a.n \div a.d

\* Math.round: the nearest integer, halves upward
FRound(a) == FFloor(FAdd(a, Frac(1, 2)))

(***************************************************************************)
(* Hexadecimal colour strings.                                             *)
(***************************************************************************)
LowerHex == <<"0", "1", "2", "3", "4", "5", "6", "7", "8", "9", "a", "b", "c", "d", "e", "f">>

UpperHex == <<"0", "1", "2", "3", "4", "5", "6", "7", "8", "9", "A", "B", "C", "D", "E", "F">>

\* parseInt(ch, 16) of one hexadecimal digit of either case
HexVal(ch) == CHOOSE v \in 0..15 : LowerHex[v + 1] = ch \/ UpperHex[v + 1] = ch

\* parseInt(hex.substring(i, i + 2), 16), i counted from 0
HexByte(hex, i) == 16 * HexVal(hex[i + 1]) + HexVal(hex[i + 2])

\* a byte as two lower-case hex digits: toString(16).padStart(2, '0')
ByteHex(v) ==
    IF v < 16 THEN <<"0", LowerHex[v + 1]>>
    ELSE <<LowerHex[(v \div 16) + 1], LowerHex[(v % 16) + 1]>>

\* n => Math.round(n * 255).toString(16).padStart(2, '0')
toHex(n) == ByteHex(FRound(FMul(n, FInt(255))))

\* the strings of the source, written out
Str6(a, b, c, d, e, f) == <<a, b, c, d, e, f>>

\* DEFAULT_THEME
DEFAULT_THEME ==
    [slot \in 0..11 |->
        CASE slot = 0  -> Str6("F", "F", "F", "F", "F", "F")
          [] slot = 1  -> Str6("0", "0", "0", "0", "0", "0")
          [] slot = 2  -> Str6("E", "7", "E", "6", "E", "6")
          [] slot = 3  -> Str6("4", "4", "5", "4", "6", "A")
          [] slot = 4  -> Str6("4", "4", "7", "2", "C", "4")
          [] slot = 5  -> Str6("E", "D", "7", "D", "3", "1")
          [] slot = 6  -> Str6("A", "5", "A", "5", "A", "5")
          [] slot = 7  -> Str6("F", "F", "C", "0", "0", "0")
          [] slot = 8  -> Str6("5", "B", "9", "B", "D", "5")
          [] slot = 9  -> Str6("7", "0", "A", "D", "4", "7")
          [] slot = 10 -> Str6("0", "5", "6", "3", "C", "1")
          [] slot = 11 -> Str6("9", "5", "4", "F", "7", "2")]

\* obj[key] of a table kept as a function: undefined (Null) off its domain
Lookup(table, key) == IF key \in DOMAIN table THEN table[key] ELSE Null

(***************************************************************************)
(* Colour references, as parseColor builds them.                           *)
(***************************************************************************)
Argb(s) == [kind |-> "argb", argb |-> s]

Theme(slot, tint) == [kind |-> "theme", theme |-> slot, tint |-> tint]

Indexed(i) == [kind |-> "indexed", indexed |-> i]

\* the legacy palette of resolveColor, '#' included
IndexedColors ==
    LET H(a, b, c, d, e, f) == <<"#", a, b, c, d, e, f>>
        Base8 == << H("0","0","0","0","0","0"), H("F","F","F","F","F","F"),
                    H("F","F","0","0","0","0"), H("0","0","F","F","0","0"),
                    H("0","0","0","0","F","F"), H("F","F","F","F","0","0"),
                    H("F","F","0","0","F","F"), H("0","0","F","F","F","F") >>
    IN  Base8 \o Base8 \o
        << H("8","0","0","0","0","0"), H("0","0","8","0","0","0"),
           H("0","0","0","0","8","0"), H("8","0","8","0","0","0"),
           H("8","0","0","0","8","0"), H("0","0","8","0","8","0"),
           H("C","0","C","0","C","0"), H("8","0","8","0","8","0"),
           H("9","9","9","9","F","F"), H("9","9","3","3","6","6"),
           H("F","F","F","F","C","C"), H("C","C","F","F","F","F"),
           H("6","6","0","0","6","6"), H("F","F","8","0","8","0"),
           H("0","0","6","6","C","C"), H("C","C","C","C","F","F"),
           H("0","0","0","0","8","0"), H("F","F","0","0","F","F"),
           H("F","F","F","F","0","0"), H("0","0","F","F","F","F"),
           H("8","0","0","0","8","0"), H("8","0","0","0","0","0"),
           H("0","0","8","0","8","0"), H("0","0","0","0","F","F"),
           H("0","0","C","C","F","F"), H("C","C","F","F","F","F"),
           H("C","C","F","F","C","C"), H("F","F","F","F","9","9"),
           H("9","9","C","C","F","F"), H("F","F","9","9","C","C"),
           H("C","C","9","9","F","F"), H("F","F","C","C","9","9"),
           H("3","3","6","6","F","F"), H("3","3","C","C","C","C"),
           H("9","9","C","C","0","0"), H("F","F","C","C","0","0"),
           H("F","F","9","9","0","0"), H("F","F","6","6","0","0"),
           H("6","6","6","6","9","9"), H("9","6","9","6","9","6"),
           H("0","0","3","3","6","6"), H("3","3","9","9","6","6"),
           H("0","0","3","3","0","0"), H("3","3","3","3","0","0"),
           H("9","9","3","3","0","0"), H("9","9","3","3","6","6"),
           H("3","3","3","3","9","9"), H("3","3","3","3","3","3") >>

\* the hue shifted into 0..1: if (t < 0) t += 1; if (t > 1) t -= 1
WrapHue(t) ==
    IF FLess(t, FInt(0))
    THEN (IF FLess(FInt(1), FAdd(t, FInt(1))) THEN t ELSE FAdd(t, FInt(1)))
    ELSE (IF FLess(FInt(1), t) THEN FSub(t, FInt(1)) ELSE t)

\* the returns of hue2rgb for a hue in 0..1
Channel(p, q, t) ==
    IF FLess(t, Frac(1, 6)) THEN FAdd(p, FMul(FMul(FSub(q, p), FInt(6)), t))
    ELSE IF FLess(t, Frac(1, 2)) THEN q
    ELSE IF FLess(t, Frac(2, 3))
         THEN FAdd(p, FMul(FMul(FSub(q, p), FSub(Frac(2, 3), t)), FInt(6)))
    ELSE p

\* the inner function of applyTint: one channel from p, q and the shifted hue
hue2rgb(p, q, t0) == Channel(p, q, WrapHue(t0))

\* s of RGB -> HSL, from max, min and l = (max + min) / 2
Saturation(max, min, l) ==
    IF max = min THEN FInt(0)
    ELSE IF FLess(Frac(1, 2), l)
         THEN FDiv(FSub(max, min), FSub(FSub(FInt(2), max), min))
         ELSE FDiv(FSub(max, min), FAdd(max, min))

\* h of RGB -> HSL, with d = max - min
Hue(rn, gn, bn, max, min, d) ==
    IF max = min THEN FInt(0)
    ELSE IF max = rn
         THEN FDiv(FAdd(FDiv(FSub(gn, bn), d),
                        IF FLess(gn, bn) THEN FInt(6) ELSE FInt(0)), FInt(6))
    ELSE IF max = gn
         THEN FDiv(FAdd(FDiv(FSub(bn, rn), d), FInt(2)), FInt(6))
    ELSE FDiv(FAdd(FDiv(FSub(rn, gn), d), FInt(4)), FInt(6))

\* the lightness moved by the tint and clamped to 0..1
Lighten(l, tint) ==
    FMax(FInt(0),
         FMin(FInt(1),
              IF FLess(tint, FInt(0))
              THEN FMul(l, FAdd(FInt(1), tint))
              ELSE FAdd(FMul(l, FSub(FInt(1), tint)), tint)))

\* q of HSL -> RGB
HslQ(l, s) ==
    IF FLess(l, Frac(1, 2)) THEN FMul(l, FAdd(FInt(1), s))
    ELSE FSub(FAdd(l, s), FMul(l, s))

\* the three channels from the hue, p and q, as the hex string returned
ChannelsHex(h, p, q) ==
    <<"#">> \o toHex(hue2rgb(p, q, FAdd(h, Frac(1, 3))))
            \o toHex(hue2rgb(p, q, h))
            \o toHex(hue2rgb(p, q, FSub(h, Frac(1, 3))))

\* HSL -> RGB with p = 2 * l - q
HslHexQ(h, l, q) == ChannelsHex(h, FSub(FMul(FInt(2), l), q), q)

\* HSL -> RGB: grey when s = 0
HslHex(h, s, l) ==
    IF s = FInt(0) THEN <<"#">> \o toHex(l) \o toHex(l) \o toHex(l)
    ELSE HslHexQ(h, l, HslQ(l, s))

\* RGB -> HSL, the tint, HSL -> RGB, with max and min of the channels at hand
TintRange(rn, gn, bn, max, min, tint) ==
    HslHex(Hue(rn, gn, bn, max, min, FSub(max, min)),
           Saturation(max, min, FDiv(FAdd(max, min), FInt(2))),
           Lighten(FDiv(FAdd(max, min), FInt(2)), tint))

\* the same from the channels as fractions of 255
TintRgb(rn, gn, bn, tint) ==
    TintRange(rn, gn, bn, FMax(rn, FMax(gn, bn)), FMin(rn, FMin(gn, bn)), tint)

\* applyTint(hexColor, tint): RGB -> HSL, lightness moved by the tint, HSL -> RGB
applyTint(hexColor, tint) ==
    TintRgb(Frac(HexByte(Tail(hexColor), 0), 255),
            Frac(HexByte(Tail(hexColor), 2), 255),
            Frac(HexByte(Tail(hexColor), 4), 255),
            tint)

\* themeColors[slot] || DEFAULT_THEME[slot]
ThemeBase(palette, slot) ==
    IF Lookup(palette, slot) # Null THEN palette[slot] ELSE Lookup(DEFAULT_THEME, slot)

\* resolveColor without the DEFAULT_THEME fallback of the theme lookup
ResolveColorIn_NoDefault(palette, colorObj) ==
    IF colorObj = Null THEN Null
    ELSE IF colorObj.kind = "argb"
    THEN IF Len(colorObj.argb) = 8
         THEN <<"#">> \o SubSeq(colorObj.argb, 3, 8)
         ELSE <<"#">> \o colorObj.argb
    ELSE IF colorObj.kind = "theme" /\ Lookup(palette, colorObj.theme) # Null
    THEN IF colorObj.tint # FInt(0)
         THEN applyTint(<<"#">> \o palette[colorObj.theme], colorObj.tint)
         ELSE <<"#">> \o palette[colorObj.theme]
    ELSE IF colorObj.kind = "indexed"
    THEN IF colorObj.indexed \in 0..(Len(IndexedColors) - 1)
         THEN IndexedColors[colorObj.indexed + 1]
         ELSE Null
    ELSE Null

\* resolveColor running applyTint whatever the tint
ResolveColorIn_AlwaysTint(palette, colorObj) ==
    IF colorObj = Null THEN Null
    ELSE IF colorObj.kind = "argb"
    THEN IF Len(colorObj.argb) = 8
         THEN <<"#">> \o SubSeq(colorObj.argb, 3, 8)
         ELSE <<"#">> \o colorObj.argb
    ELSE IF colorObj.kind = "theme" /\ ThemeBase(palette, colorObj.theme) # Null
    THEN applyTint(<<"#">> \o ThemeBase(palette, colorObj.theme), colorObj.tint)
    ELSE IF colorObj.kind = "indexed"
    THEN IF colorObj.indexed \in 0..(Len(IndexedColors) - 1)
         THEN IndexedColors[colorObj.indexed + 1]
         ELSE Null
    ELSE Null

\* resolveColor(colorObj) read against a theme palette
ResolveColorIn(palette, colorObj) ==
    IF colorObj = Null THEN Null
    ELSE IF colorObj.kind = "argb"
    THEN IF Len(colorObj.argb) = 8
         THEN <<"#">> \o SubSeq(colorObj.argb, 3, 8)
         ELSE <<"#">> \o colorObj.argb
    ELSE IF colorObj.kind = "theme" /\ ThemeBase(palette, colorObj.theme) # Null
    THEN IF colorObj.tint # FInt(0)
         THEN applyTint(<<"#">> \o ThemeBase(palette, colorObj.theme), colorObj.tint)
         ELSE <<"#">> \o ThemeBase(palette, colorObj.theme)
    ELSE IF colorObj.kind = "indexed"
    THEN IF colorObj.indexed \in 0..(Len(IndexedColors) - 1)
         THEN IndexedColors[colorObj.indexed + 1]
         ELSE Null
    ELSE Null

resolveColor(colorObj) == ResolveColorIn(themeColors, colorObj)

(***************************************************************************)
(* The theme part and parseTheme.                                          *)
(***************************************************************************)
\* colorMap of parseTheme: role element name -> slot
colorMap ==
    [dk1 |-> 1, lt1 |-> 0, dk2 |-> 3, lt2 |-> 2,
     accent1 |-> 4, accent2 |-> 5, accent3 |-> 6,
     accent4 |-> 7, accent5 |-> 8, accent6 |-> 9,
     hlink |-> 10, folHlink |-> 11]

\* a role element of the colour scheme: its srgbClr / sysClr child, if any, and the
\* child's val / lastClr attribute (Null when the attribute is missing)
SrgbClr(val) == [srgb |-> TRUE, val |-> val, sys |-> FALSE, lastClr |-> Null]

SysClr(lastClr) == [srgb |-> FALSE, val |-> Null, sys |-> TRUE, lastClr |-> lastClr]

OtherClr == [srgb |-> FALSE, val |-> Null, sys |-> FALSE, lastClr |-> Null]

\* the palette parseTheme leaves for a theme part: Null for a package without the
\* part, else [scheme: whether clrScheme is there, roles: role name -> element]
ParseThemeResult(part) ==
    IF part = Null \/ ~part.scheme THEN DEFAULT_THEME
    ELSE [slot \in 0..11 |->
            LET name == CHOOSE r \in DOMAIN colorMap : colorMap[r] = slot
            IN  IF name \notin DOMAIN part.roles THEN DEFAULT_THEME[slot]
                ELSE LET elem == part.roles[name]
                     IN  IF elem.srgb THEN elem.val
                         ELSE IF elem.sys
                              THEN (IF elem.lastClr # Null THEN elem.lastClr
                                    ELSE DEFAULT_THEME[slot])
                         ELSE DEFAULT_THEME[slot]]

(***************************************************************************)
(* The state after construction (the module-level declarations).           *)
(***************************************************************************)
NoTable == [kind |-> "empty"]

TablesInit ==
    /\ themeColors = <<>>
    /\ fonts = <<>>
    /\ fills = <<>>
    /\ borders = <<>>
    /\ cellXfs = <<>>
    /\ sharedStrings = <<>>
    /\ numFmts = <<>>

SheetGlobalsInit ==
    /\ currentMaxCol = 0
    /\ currentColWidths = <<>>
    /\ currentMDW = 7

\* the PDFViewer object after its constructor
PdfViewerInit ==
    /\ pdfDoc = Null
    /\ pdfjsDoc = Null
    /\ currentPage = 1
    /\ scale = FInt(1)
    /\ viewerArea = Null
    /\ pdfTasks = <<>>
    /\ zoomEvents = 0

PageInit ==
    /\ PdfViewerInit
    /\ sheetTabs = <<>>
    /\ uploadWrapper = "show"
    /\ tableWrapper = NoTable
    /\ loads = <<>>
    /\ sheetLoads = <<>>

Init == TablesInit /\ SheetGlobalsInit /\ PageInit /\ call = Null

(***************************************************************************)
(* Colour resolution on its own: the palette is any that parseTheme can    *)
(* leave, the colour reference any that parseColor can build.              *)
(***************************************************************************)
MaxIndexed == 65

MaxThemeSlot == 12

Tints == {FInt(0), Frac(-1, 2), Frac(-1, 4), Frac(2, 5), Frac(4, 5)}

\* the Office 2007 colour scheme
OfficeTheme ==
    [scheme |-> TRUE,
     roles |-> [dk1 |-> SysClr(Str6("0", "0", "0", "0", "0", "0")),
                lt1 |-> SysClr(Str6("F", "F", "F", "F", "F", "F")),
                dk2 |-> SrgbClr(Str6("1", "F", "4", "9", "7", "D")),
                lt2 |-> SrgbClr(Str6("E", "E", "E", "C", "E", "1")),
                accent1 |-> SrgbClr(Str6("4", "F", "8", "1", "B", "D")),
                accent2 |-> SrgbClr(Str6("C", "0", "5", "0", "4", "D")),
                accent3 |-> SrgbClr(Str6("9", "B", "B", "B", "5", "9")),
                accent4 |-> SrgbClr(Str6("8", "0", "6", "4", "A", "2")),
                accent5 |-> SrgbClr(Str6("4", "B", "A", "C", "C", "6")),
                accent6 |-> SrgbClr(Str6("F", "7", "9", "6", "4", "6")),
                hlink |-> SrgbClr(Str6("0", "0", "0", "0", "F", "F")),
                folHlink |-> SrgbClr(Str6("8", "0", "0", "0", "8", "0"))]]

\* a scheme that omits roles and holds elements without a usable value
PartialTheme ==
    [scheme |-> TRUE,
     roles |-> [dk1 |-> SysClr(Null),
                lt1 |-> SysClr(Str6("f", "2", "f", "2", "f", "2")),
                accent1 |-> SrgbClr(Str6("c", "0", "5", "0", "4", "d")),
                accent2 |-> SrgbClr(Null),
                accent3 |-> OtherClr]]

ThemeParts == {Null, [scheme |-> FALSE, roles |-> <<>>], OfficeTheme, PartialTheme}

\* the palettes the program can hold: none yet, the defaults of a parse in
\* flight, and the result of a finished parse
Palettes == {<<>>, DEFAULT_THEME} \cup {ParseThemeResult(part) : part \in ThemeParts}

ColorRefs ==
    {Argb(<<"F", "F">> \o Str6("0", "0", "0", "0", "0", "0")),
     Argb(<<"8", "0">> \o Str6("F", "F", "0", "0", "0", "0")),
     Argb(Str6("0", "0", "B", "0", "5", "0"))}
    \cup {Theme(slot, tint) : slot \in 0..MaxThemeSlot, tint \in Tints}
    \cup {Indexed(i) : i \in -1..MaxIndexed}

InitColor ==
    /\ themeColors \in Palettes
    /\ fonts = <<>> /\ fills = <<>> /\ borders = <<>> /\ cellXfs = <<>>
    /\ sharedStrings = <<>> /\ numFmts = <<>>
    /\ SheetGlobalsInit /\ PageInit /\ call = Null

CallResolveColor ==
    /\ UNCHANGED pdfVars
    /\ \E ref \in ColorRefs :
         call' = [fn |-> "resolveColor", arg |-> ref, out |-> resolveColor(ref)]
    /\ UNCHANGED <<themeColors, fonts, fills, borders, cellXfs, sharedStrings, numFmts,
                   currentMaxCol, currentColWidths, currentMDW, sheetTabs, uploadWrapper, tableWrapper,
                   loads, sheetLoads>>

NextColor == CallResolveColor

SpecColor == InitColor /\ [][NextColor]_vars

ColorCalled == call # Null /\ call.fn = "resolveColor"

HexChars == {LowerHex[i] : i \in 1..16} \cup {UpperHex[i] : i \in 1..16}

\* '#' and six hexadecimal digits
IsRgb(c) ==
    /\ c # Null
    /\ Len(c) = 7
    /\ c[1] = "#"
    /\ \A i \in 2..7 : c[i] \in HexChars

\* C9: resolveColor is total over colour references: an RGB colour for every
\* direct value, every theme slot 0..11 (whatever the tint and the palette) and
\* every indexed colour 0..63, and null for every indexed colour outside the
\* 64-entry palette.
C9_ResolveColorTotal ==
    ColorCalled =>
        /\ call.arg.kind = "argb" => IsRgb(call.out)
        /\ (call.arg.kind = "theme" /\ call.arg.theme \in 0..11) => IsRgb(call.out)
        /\ (call.arg.kind = "indexed" /\ call.arg.indexed \in 0..63) => IsRgb(call.out)
        /\ (call.arg.kind = "indexed" /\ call.arg.indexed \notin 0..63) => call.out = Null

C9_Witness ==
    /\ ColorCalled
    /\ call.arg = Indexed(64)
    /\ call.out = Null

\* C10: a theme colour with tint 0 resolves to exactly the palette's base colour
\* of its slot (the built-in default where the palette holds none), untinted.
C10_TintZeroIsBase ==
    (ColorCalled /\ call.arg.kind = "theme" /\ call.arg.tint = FInt(0)
                 /\ call.arg.theme \in 0..11) =>
        call.out = <<"#">> \o (IF Lookup(themeColors, call.arg.theme) # Null
                               THEN themeColors[call.arg.theme]
                               ELSE DEFAULT_THEME[call.arg.theme])

C10_Witness ==
    /\ ColorCalled
    /\ call.arg = Theme(4, FInt(0))
    /\ themeColors = ParseThemeResult(OfficeTheme)
    /\ call.out = <<"#">> \o Str6("4", "F", "8", "1", "B", "D")

(***************************************************************************)
(* The number formatter.                                                   *)
(***************************************************************************)
\* fmt.includes(ch)
Includes(str, ch) == \E i \in 1..Len(str) : str[i] = ch

\* (fmt.match(/0/g) || []).length
CountChar(str, ch) == Cardinality({i \in 1..Len(str) : str[i] = ch})

\* /[ymd]/i.test(fmt)
HasYMD(str) == \E i \in 1..Len(str) : str[i] \in {"y", "m", "d", "Y", "M", "D"}

\* the length of the first match of /\.0+/ in fmt, 0 when there is none
RECURSIVE ZeroRun(_, _)
ZeroRun(str, i) == IF i <= Len(str) /\ str[i] = "0" THEN 1 + ZeroRun(str, i + 1) ELSE 0

DotZerosLen(str) ==
    LET starts == {i \in 1..Len(str) : str[i] = "." /\ ZeroRun(str, i + 1) > 0}
    IN  IF starts = {} THEN 0
        ELSE LET i == CHOOSE j \in starts : \A k \in starts : j <= k
             IN  1 + ZeroRun(str, i + 1)

Max0(n) == IF n < 0 THEN 0 ELSE n

\* 'General'
General == <<"G", "e", "n", "e", "r", "a", "l">>

\* builtIn of formatNumber
builtIn ==
    [id \in {0, 1, 2, 3, 4, 9, 10, 14, 22} |->
        CASE id = 0  -> General
          [] id = 1  -> <<"0">>
          [] id = 2  -> <<"0", ".", "0", "0">>
          [] id = 3  -> <<"#", ",", "#", "#", "0">>
          [] id = 4  -> <<"#", ",", "#", "#", "0", ".", "0", "0">>
          [] id = 9  -> <<"0", "%">>
          [] id = 10 -> <<"0", ".", "0", "0", "%">>
          [] id = 14 -> <<"y", "y", "y", "y", "/", "m", "/", "d">>
          [] id = 22 -> <<"y", "y", "y", "y", "/", "m", "/", "d", " ", "h", ":", "m", "m">>]

\* a format id that is null / undefined
NoFmtId == -1

\* numFmts[fmtId] || builtIn[fmtId] || 'General'
FormatCode(customFmts, fmtId) ==
    IF Lookup(customFmts, fmtId) # Null THEN customFmts[fmtId]
    ELSE IF Lookup(builtIn, fmtId) # Null THEN builtIn[fmtId]
    ELSE General

\* new Date((value - 25569) * 86400 * 1000) is a valid date: the time value lies
\* within 8.64e15 ms of the epoch, that is within 100,000,000 days
DaysRange == 100000000

ValidDate(value) ==
    LET days == FSub(value, FInt(25569))
    IN  ~FLess(FInt(DaysRange), days) /\ ~FLess(days, FInt(-DaysRange))

\* formatNumber with percent and thousands tried in the other order
FormatNumberIn_ThousandsFirst(customFmts, value, fmtId) ==
    LET fmt == FormatCode(customFmts, fmtId)
    IN  IF HasYMD(fmt) /\ FLess(FInt(0), value) /\ ValidDate(value)
        THEN [rule |-> "date", days |-> FSub(value, FInt(25569))]
        ELSE IF Includes(fmt, ",")
        THEN [rule |-> "thousands", value |-> value, digits |-> Max0(DotZerosLen(fmt) - 1)]
        ELSE IF Includes(fmt, "%")
        THEN [rule |-> "percent", value |-> value, digits |-> Max0(CountChar(fmt, "0") - 1)]
        ELSE IF DotZerosLen(fmt) > 0
        THEN [rule |-> "fixed", value |-> value, digits |-> DotZerosLen(fmt) - 1]
        ELSE [rule |-> "general", value |-> value, integer |-> (value.d = 1)]

\* formatNumber(value, fmtId) read against the custom formats.  The result names
\* the return statement taken and what it formats:
\*   date      date.toLocaleDateString('zh-CN') of the epoch plus days
\*   percent   (value * 100).toFixed(digits) + '%'
\*   thousands value.toLocaleString('zh-CN', digits as min and max fraction digits)
\*   fixed     value.toFixed(digits)
\*   general   String(value) of an integer, else parseFloat(value.toPrecision(10))
FormatNumberIn(customFmts, value, fmtId) ==
    LET fmt == FormatCode(customFmts, fmtId)
    IN  IF HasYMD(fmt) /\ FLess(FInt(0), value) /\ ValidDate(value)
        THEN [rule |-> "date", days |-> FSub(value, FInt(25569))]
        ELSE IF Includes(fmt, "%")
        THEN [rule |-> "percent", value |-> value, digits |-> Max0(CountChar(fmt, "0") - 1)]
        ELSE IF Includes(fmt, ",")
        THEN [rule |-> "thousands", value |-> value, digits |-> Max0(DotZerosLen(fmt) - 1)]
        ELSE IF DotZerosLen(fmt) > 0
        THEN [rule |-> "fixed", value |-> value, digits |-> DotZerosLen(fmt) - 1]
        ELSE [rule |-> "general", value |-> value, integer |-> (value.d = 1)]

formatNumber(value, fmtId) == FormatNumberIn(numFmts, value, fmtId)

(***************************************************************************)
(* Number formatting on its own: any value, any format id, with and        *)
(* without custom formats.                                                 *)
(***************************************************************************)
\* a styles part's numFmt elements: custom ids, one of them shadowing a built-in
CustomFmts ==
    [id \in {14, 164, 165, 166, 167} |->
        CASE id = 14  -> <<"m", "/", "d", "/", "y", "y", "y", "y">>
          [] id = 164 -> <<"0", ".", "0", "0", "0">>
          [] id = 165 -> <<"#", ",", "#", "#", "0", ".", "0", "0", "%">>
          [] id = 166 -> <<"[", "R", "e", "d", "]", "0", ".", "0">>
          [] id = 167 -> <<"#", ",", "#", "#", "0", ".", "0", "_", " ">>]

FmtIds == {0, 1, 2, 3, 4, 9, 10, 14, 22, 49, 164, 165, 166, 167}

\* 0, 0.5, -2.5, 1234.5, 45292 (2024-01-01), the last serial of the Date range and
\* the first beyond it
FormatValues ==
    {FInt(0), Frac(1, 2), Frac(-5, 2), Frac(2469, 2), FInt(45292),
     FInt(DaysRange + 25569), FInt(DaysRange + 25570)}

InitFormat ==
    /\ numFmts \in {<<>>, CustomFmts}
    /\ themeColors = <<>>
    /\ fonts = <<>> /\ fills = <<>> /\ borders = <<>> /\ cellXfs = <<>>
    /\ sharedStrings = <<>>
    /\ SheetGlobalsInit /\ PageInit /\ call = Null

CallFormatNumber ==
    /\ UNCHANGED pdfVars
    /\ \E value \in FormatValues, fmtId \in FmtIds \cup {NoFmtId} :
         call' = [fn |-> "formatNumber", arg |-> [value |-> value, fmtId |-> fmtId],
                  out |-> formatNumber(value, fmtId)]
    /\ UNCHANGED <<themeColors, fonts, fills, borders, cellXfs, sharedStrings, numFmts,
                   currentMaxCol, currentColWidths, currentMDW, sheetTabs, uploadWrapper, tableWrapper,
                   loads, sheetLoads>>

NextFormat == CallFormatNumber

SpecFormat == InitFormat /\ [][NextFormat]_vars

FormatCalled == call # Null /\ call.fn = "formatNumber"

\* the first rule of the ladder that a format code and a value match, as the
\* specification states the rules
FirstRule(fmt, value) ==
    IF HasYMD(fmt) /\ FLess(FInt(0), value) THEN "date"
    ELSE IF Includes(fmt, "%") THEN "percent"
    ELSE IF Includes(fmt, ",") THEN "thousands"
    ELSE IF DotZerosLen(fmt) > 0 THEN "fixed"
    ELSE "general"

\* the same ladder below the date rule
FirstLaterRule(fmt) ==
    IF Includes(fmt, "%") THEN "percent"
    ELSE IF Includes(fmt, ",") THEN "thousands"
    ELSE IF DotZerosLen(fmt) > 0 THEN "fixed"
    ELSE "general"

\* C7 as claimed: the output always comes from the first rule that the format
\* code (and, for the date rule, the value > 0) matches.
C7_FirstMatchingRule ==
    FormatCalled =>
        call.out.rule = FirstRule(FormatCode(numFmts, call.arg.fmtId), call.arg.value)

\* C7 amended: as claimed, except that a value matching the date rule whose
\* serial lies beyond the range of a JavaScript Date (more than 100,000,000 days
\* after serial 25569) is rendered by the first later rule the code matches.
C7_FirstMatchingRuleInRange ==
    FormatCalled =>
        LET fmt == FormatCode(numFmts, call.arg.fmtId)
            value == call.arg.value
        IN  call.out.rule =
                IF FirstRule(fmt, value) = "date" /\ ~ValidDate(value)
                THEN FirstLaterRule(fmt)
                ELSE FirstRule(fmt, value)

\* a code with both a percent sign and a thousands separator goes by the
\* percent rule
C7_Witness ==
    /\ FormatCalled
    /\ numFmts = CustomFmts
    /\ call.arg.fmtId = 165
    /\ call.arg.value = Frac(1, 2)
    /\ call.out = [rule |-> "percent", value |-> Frac(1, 2), digits |-> 2]

(***************************************************************************)
(* The styles part and parseStyles.                                        *)
(***************************************************************************)
\* a missing attribute, and the null of an index (style index, xfId)
NoAttr == -1

\* parseInt(attribute) || 0
AttrOr0(a) == IF a = NoAttr THEN 0 ELSE a

\* a font element as parseStyles reads it; "" and 0 stand for a missing name / sz
Font(name, size, bold, color) ==
    [name |-> name, size |-> size, bold |-> bold, italic |-> FALSE,
     underline |-> FALSE, strike |-> FALSE, color |-> color]

\* a fill element: its patternFill child's patternType and fgColor
PatternFill(pattern, fgColor) ==
    [type |-> "pattern", pattern |-> pattern, fgColor |-> fgColor, bgColor |-> Null]

\* a side element of a border: its style attribute ("" when missing) and the
\* colour its color child parses to (Null without the child)
Side(style, color) == [style |-> style, color |-> color]

NoSide == Side("", Null)

Border(left, right, top, bottom) ==
    [left |-> left, right |-> right, top |-> top, bottom |-> bottom]

\* an alignment element
Alignment(horizontal, vertical, wrapText, shrinkToFit, textRotation, indent) ==
    [horizontal |-> horizontal, vertical |-> vertical, wrapText |-> wrapText,
     shrinkToFit |-> shrinkToFit, textRotation |-> textRotation, indent |-> indent]

\* an xf element of cellXfs
Xf(fontId, fillId, borderId, numFmtId, xfId, applyAlignment, alignment) ==
    [fontId |-> fontId, fillId |-> fillId, borderId |-> borderId,
     numFmtId |-> numFmtId, xfId |-> xfId, applyAlignment |-> applyAlignment,
     alignment |-> alignment]

\* a side of a border as parseStyles keeps it: only when the style attribute is there
ParseSide(sideElem) == IF sideElem.style = "" THEN Null ELSE sideElem

ParseBorder(borderElem) ==
    [side \in {"left", "right", "top", "bottom"} |-> ParseSide(borderElem[side])]

\* the alignment merge with the base format's alignment written over the format's own
ParseXf_ParentFirst(xf, baseCellXfs) ==
    [fontId |-> AttrOr0(xf.fontId), fillId |-> AttrOr0(xf.fillId),
     borderId |-> AttrOr0(xf.borderId), numFmtId |-> AttrOr0(xf.numFmtId),
     xfId |-> xf.xfId, applyAlignment |-> xf.applyAlignment,
     alignment |->
        IF xf.applyAlignment = "0" THEN Null
        ELSE IF xf.xfId # NoAttr /\ xf.xfId + 1 \in DOMAIN baseCellXfs
                /\ baseCellXfs[xf.xfId + 1].alignment # Null
        THEN baseCellXfs[xf.xfId + 1].alignment
        ELSE xf.alignment]

\* an applied cell format after the alignment merge: applyAlignment="0" drops the
\* alignment, a format without its own takes the one of its base format
ParseXf(xf, baseCellXfs) ==
    [fontId |-> AttrOr0(xf.fontId), fillId |-> AttrOr0(xf.fillId),
     borderId |-> AttrOr0(xf.borderId), numFmtId |-> AttrOr0(xf.numFmtId),
     xfId |-> xf.xfId, applyAlignment |-> xf.applyAlignment,
     alignment |->
        IF xf.applyAlignment = "0" THEN Null
        ELSE IF xf.alignment = Null /\ xf.xfId # NoAttr
                /\ xf.xfId + 1 \in DOMAIN baseCellXfs
        THEN baseCellXfs[xf.xfId + 1].alignment
        ELSE xf.alignment]

\* the tables parseStyles leaves for a styles part (Null: the package has none)
ParseStylesResult(part) ==
    IF part = Null
    THEN [fonts |-> <<>>, fills |-> <<>>, borders |-> <<>>, cellXfs |-> <<>>,
          numFmts |-> <<>>]
    ELSE [fonts |-> part.fonts,
          fills |-> part.fills,
          borders |-> [i \in DOMAIN part.borders |-> ParseBorder(part.borders[i])],
          cellXfs |-> [i \in DOMAIN part.cellXfs |->
                          ParseXf(part.cellXfs[i], part.cellStyleXfs)],
          numFmts |-> part.numFmts]

\* array[index] of a JavaScript array held as a sequence: undefined when out of range
At(array, index) ==
    IF index # NoAttr /\ index + 1 \in DOMAIN array THEN array[index + 1] ELSE Null

(***************************************************************************)
(* The shared strings part, rich text, and the workbook part.              *)
(***************************************************************************)
\* element children of an si / is / r node
T(text) == [tag |-> "t", text |-> text, kids |-> <<>>]

Br == [tag |-> "br", text |-> "", kids |-> <<>>]

R(kids) == [tag |-> "r", text |-> "", kids |-> kids]

RPh(kids) == [tag |-> "rPh", text |-> "", kids |-> kids]

RECURSIVE RunText(_, _)
\* the text a run contributes: its t children and a newline per br
RunText(kids, i) ==
    IF i > Len(kids) THEN ""
    ELSE (IF kids[i].tag = "t" THEN kids[i].text
          ELSE IF kids[i].tag = "br" THEN "\n" ELSE "") \o RunText(kids, i + 1)

RECURSIVE ChildrenText(_, _)
ChildrenText(children, i) ==
    IF i > Len(children) THEN ""
    ELSE (IF children[i].tag = "t" THEN children[i].text
          ELSE IF children[i].tag = "r" THEN RunText(children[i].kids, 1)
          ELSE IF children[i].tag = "br" THEN "\n" ELSE "")
         \o ChildrenText(children, i + 1)

RECURSIVE FirstT(_, _)
\* node.querySelector('t'): the text of the first t element in document order
FirstT(children, i) ==
    IF i > Len(children) THEN ""
    ELSE IF children[i].tag = "t" THEN children[i].text
    ELSE IF \E k \in 1..Len(children[i].kids) : children[i].kids[k].tag = "t"
    THEN LET k == CHOOSE k \in 1..Len(children[i].kids) :
                     /\ children[i].kids[k].tag = "t"
                     /\ \A j \in 1..(k - 1) : children[i].kids[j].tag # "t"
         IN  children[i].kids[k].text
    ELSE FirstT(children, i + 1)

\* extractRichText without the search for a nested t element
extractRichText_ChildrenOnly(node) ==
    IF node = Null THEN "" ELSE ChildrenText(node, 1)

\* extractRichText(node) for a node given by its element children (Null: no node)
extractRichText(node) ==
    IF node = Null THEN ""
    ELSE IF ChildrenText(node, 1) # "" THEN ChildrenText(node, 1)
    ELSE FirstT(node, 1)

\* the table parseSharedStrings leaves for a shared strings part: one string per si
ParseSharedStringsResult(part) ==
    IF part = Null THEN <<>>
    ELSE [i \in DOMAIN part |-> extractRichText(part[i])]

(***************************************************************************)
(* A worksheet document.  References are held parsed: a cell sits at a      *)
(* (row, column), a merge runs from its first to its last cell.            *)
(*   doc   = [cols, merges, rows]                                          *)
(*   col   = [min, max, width, style]     width Null / style NoAttr: none  *)
(*   merge = [s |-> [r, c], e |-> [r, c]]                                  *)
(*   row   = [r, s, cells]                cells: column -> c element       *)
(*   c     = [t, s, v, is]                t "": no type attribute          *)
(***************************************************************************)
\* the v child of a cell: none, a number's text, or other text
NoV == [k |-> "none"]

VNum(f) == [k |-> "num", f |-> f]

VText(s) == [k |-> "text", s |-> s]

Cell(t, s, v, is) == [t |-> t, s |-> s, v |-> v, is |-> is]

\* a displayed string
Str(s) == [str |-> s]

MaxOf(S) == CHOOSE m \in S : \A x \in S : x <= m

MinOf(S) == CHOOSE m \in S : \A x \in S : m <= x

\* null of a style index
NoStyle == NoAttr

\* the row element with number r, Null without one
RowOf(doc, r) ==
    IF \E i \in DOMAIN doc.rows : doc.rows[i].r = r
    THEN doc.rows[CHOOSE i \in DOMAIN doc.rows : doc.rows[i].r = r]
    ELSE Null

\* cellElemMap / cellMap: the c element at (r, c), Null without one
CellAt(doc, r, c) ==
    IF RowOf(doc, r) # Null /\ c \in DOMAIN RowOf(doc, r).cells
    THEN RowOf(doc, r).cells[c]
    ELSE Null

\* the default Excel column width
DefaultWidth == Frac(843, 100)

\* colWidths of renderSheet: column -> parseFloat(width) || 8.43 of the last col
\* element covering it
ColWidths(doc) ==
    LET covering(c) == {i \in DOMAIN doc.cols : doc.cols[i].min <= c /\ c <= doc.cols[i].max}
        covered == UNION {doc.cols[i].min .. doc.cols[i].max : i \in DOMAIN doc.cols}
    IN  [c \in covered |->
            LET w == doc.cols[MaxOf(covering(c))].width
            IN  IF w = Null \/ w = FInt(0) THEN DefaultWidth ELSE w]

\* colWidths[c] || 8.43
WidthOrDefault(colWidths, c) ==
    IF c \in DOMAIN colWidths /\ colWidths[c] # FInt(0) THEN colWidths[c] ELSE DefaultWidth

\* colStyles of renderSheet: the style of the last col element covering the column
\* that carries one
ColStyle(doc, c) ==
    LET styled == {i \in DOMAIN doc.cols :
                      /\ doc.cols[i].min <= c /\ c <= doc.cols[i].max
                      /\ doc.cols[i].style # NoAttr}
    IN  IF styled = {} THEN NoStyle ELSE doc.cols[MaxOf(styled)].style

\* mergeSpanMap.get: the last mergeCell covering (r, c), Null when none does
MergeSpan(doc, r, c) ==
    LET covering == {i \in DOMAIN doc.merges :
                        /\ doc.merges[i].s.r <= r /\ r <= doc.merges[i].e.r
                        /\ doc.merges[i].s.c <= c /\ c <= doc.merges[i].e.c}
    IN  IF covering = {} THEN Null ELSE doc.merges[MaxOf(covering)]

IsMaster(doc, r, c) ==
    MergeSpan(doc, r, c) # Null /\ MergeSpan(doc, r, c).s = [r |-> r, c |-> c]

IsHidden(doc, r, c) == MergeSpan(doc, r, c) # Null /\ ~IsMaster(doc, r, c)

\* the column limit of a rendered sheet
ColLimit == 100

\* maxCol of renderSheet: the largest column of a c element, at least 1, at most 100
MaxColOf(doc) ==
    LET used == UNION {DOMAIN doc.rows[i].cells : i \in DOMAIN doc.rows} \cup {1}
    IN  IF MaxOf(used) > ColLimit THEN ColLimit ELSE MaxOf(used)

\* calcColumnWidthPx answering a width of 0 or less as it answers one that is no number
calcColumnWidthPx_DefaultForNonPositive(excelWidth, currMDW) ==
    IF ~FLess(FInt(0), excelWidth) THEN 64
    ELSE FFloor(FMul(FDiv(FAdd(FMul(FInt(256), excelWidth), FInt(128 \div currMDW)),
                          FInt(256)),
                     FInt(currMDW))) + 5

\* calcColumnWidthPx with the max digit width in force
calcColumnWidthPx(excelWidth, currMDW) ==
    LET mdw == IF currMDW = 0 THEN 7 ELSE currMDW
    IN  IF ~FLess(FInt(0), excelWidth) THEN 0
        ELSE FFloor(FMul(FDiv(FAdd(FMul(FInt(256), excelWidth), FInt(128 \div mdw)),
                              FInt(256)),
                         FInt(mdw))) + 5

\* resolveStyleIndex with the column style before the row style
resolveStyleIndex_ColumnFirst(doc, r, c) ==
    IF CellAt(doc, r, c) # Null /\ CellAt(doc, r, c).s # NoAttr THEN CellAt(doc, r, c).s
    ELSE IF ColStyle(doc, c) # NoStyle THEN ColStyle(doc, c)
    ELSE IF RowOf(doc, r) # Null /\ RowOf(doc, r).s # NoAttr THEN RowOf(doc, r).s
    ELSE NoStyle

\* resolveStyleIndex of renderSheet: cellStyleMap, then rowStyleMap, then colStyles
resolveStyleIndex(doc, r, c) ==
    IF CellAt(doc, r, c) # Null /\ CellAt(doc, r, c).s # NoAttr THEN CellAt(doc, r, c).s
    ELSE IF RowOf(doc, r) # Null /\ RowOf(doc, r).s # NoAttr THEN RowOf(doc, r).s
    ELSE IF ColStyle(doc, c) # NoStyle THEN ColStyle(doc, c)
    ELSE NoStyle

\* the value of a cell after the shared string, inline string and boolean steps
CellValue(cellElem) ==
    IF cellElem.t = "s" /\ cellElem.v # NoV
    THEN IF cellElem.v.k = "num" /\ FFloor(cellElem.v.f) + 1 \in DOMAIN sharedStrings
         THEN Str(sharedStrings[FFloor(cellElem.v.f) + 1])
         ELSE Str("")
    ELSE IF cellElem.t = "inlineStr" /\ cellElem.is # Null
    THEN Str(extractRichText(cellElem.is))
    ELSE IF cellElem.t = "b"
    THEN Str(IF cellElem.v = VNum(FInt(1)) THEN "TRUE" ELSE "FALSE")
    ELSE IF cellElem.v.k = "text" THEN Str(cellElem.v.s)
    ELSE IF cellElem.v.k = "num" THEN [raw |-> cellElem.v.f]
    ELSE Str("")

\* getCellDisplayText(cellElem, styleIndex)
getCellDisplayText(cellElem, styleIndex) ==
    IF cellElem = Null THEN Str("")
    ELSE IF cellElem.t \in {"", "n"} /\ cellElem.v.k = "num"
    THEN formatNumber(cellElem.v.f,
                      IF At(cellXfs, styleIndex) # Null
                      THEN At(cellXfs, styleIndex).numFmtId ELSE NoFmtId)
    ELSE CellValue(cellElem)

\* measureTextWidth: the canvas is taken to give every character the max digit width
measureTextWidth(text, currMDW) == Len(text.str) * currMDW

\* the fixed horizontal padding of a cell, px
paddingX == 6

Max2(a, b) == IF a < b THEN b ELSE a

\* the loop of getOverflowEndCol without the break at a merged column
OverflowScan_OverMerged(doc, rowNum, c, maxCol, endCol) ==
    LET free == {e \in c..maxCol :
                    \A k \in c..e :
                        getCellDisplayText(CellAt(doc, rowNum, k),
                                           resolveStyleIndex(doc, rowNum, k)) = Str("")}
    IN  IF free = {} THEN endCol ELSE MaxOf(free)

RECURSIVE OverflowScan(_, _, _, _, _)
\* the loop of getOverflowEndCol from column c on: endCol so far is returned at the
\* first merged or non-empty column and past the max column
OverflowScan(doc, rowNum, c, maxCol, endCol) ==
    IF c > maxCol THEN endCol
    ELSE IF MergeSpan(doc, rowNum, c) # Null THEN endCol
    ELSE IF getCellDisplayText(CellAt(doc, rowNum, c), resolveStyleIndex(doc, rowNum, c))
            # Str("")
    THEN endCol
    ELSE OverflowScan(doc, rowNum, c + 1, maxCol, c)

\* null of getOverflowEndCol
NoOverflow == 0

(***************************************************************************)
(* A rendered cell: the td element with what the renderer sets on it.      *)
(* border holds, per side, the value last assigned to td.style.border<Side>*)
(* ([w, s, c], c Null where the colour did not resolve), Null when none    *)
(* was assigned.                                                           *)
(***************************************************************************)
Sides == {"top", "right", "bottom", "left"}

DefaultTd ==
    [text |-> Str(""), number |-> FALSE, font |-> Null, color |-> Null,
     backgroundColor |-> Null, border |-> [side \in Sides |-> Null],
     textAlign |-> "", verticalAlign |-> "", wrap |-> FALSE, paddingLeft |-> 0,
     rowSpan |-> 1, colSpan |-> 1, overflow |-> NoOverflow]

\* reading td.style.border<Side>: the style object drops a declaration whose colour
\* does not parse, so the property then still reads as empty
BorderOf(td, side) ==
    IF td.border[side] # Null /\ td.border[side].c # Null THEN td.border[side] ELSE Null

Black == <<"#", "0", "0", "0">>

\* the width, line style and colour applyBorderSide writes for a declared side
BorderCss(bs) ==
    [w |-> CASE bs.style = "medium" -> "2px"
             [] bs.style = "thick" -> "3px"
             [] bs.style = "hair" -> "0.5px"
             [] bs.style = "double" -> "3px"
             [] OTHER -> "1px",
     s |-> CASE bs.style = "dotted" -> "dotted"
             [] bs.style = "dashed" -> "dashed"
             [] bs.style = "double" -> "double"
             [] OTHER -> "solid",
     c |-> IF bs.color # Null THEN resolveColor(bs.color) ELSE Black]

\* applyBorderSide of a cell whose outer columns are startCol and endCol: nothing on
\* the left of column 1 and on the right of the last column
applyBorderSide(td, side, bs, startCol, endCol, maxCol) ==
    IF bs = Null \/ bs.style = "" THEN td
    ELSE IF side = "left" /\ startCol = 1 THEN td
    ELSE IF side = "right" /\ maxCol # 0 /\ endCol = maxCol THEN td
    ELSE [td EXCEPT !.border[side] = BorderCss(bs)]

\* the border record of the format the cell at (r, c) resolves to, Null without one
getBorderForCell(doc, r, c) ==
    IF At(cellXfs, resolveStyleIndex(doc, r, c)) = Null THEN Null
    ELSE At(borders, At(cellXfs, resolveStyleIndex(doc, r, c)).borderId)

\* td.style.color = color, when the colour resolved
SetColor(td, color) == IF color = Null THEN td ELSE [td EXCEPT !.color = color]

\* td.style.backgroundColor = color, when the colour resolved
SetBackgroundColor(td, color) ==
    IF color = Null THEN td ELSE [td EXCEPT !.backgroundColor = color]

\* the font part of applyCellStyle
ApplyFont(td, cellStyle) ==
    LET font == At(fonts, cellStyle.fontId)
    IN  IF font = Null THEN td
        ELSE SetColor(
                [td EXCEPT
                    !.font = [name |-> IF font.name # "" THEN font.name
                                       ELSE IF fonts # <<>> /\ fonts[1].name # ""
                                       THEN fonts[1].name
                                       ELSE "DengXian",  \* the built-in fallback family
                              size |-> font.size, bold |-> font.bold,
                              italic |-> font.italic, underline |-> font.underline,
                              strike |-> font.strike]],
                IF font.color # Null THEN resolveColor(font.color) ELSE Null)

\* the fill part of applyCellStyle
ApplyFill(td, cellStyle) ==
    LET fill == At(fills, cellStyle.fillId)
    IN  SetBackgroundColor(td,
            IF fill # Null /\ fill.type = "pattern" /\ fill.fgColor # Null
            THEN resolveColor(fill.fgColor) ELSE Null)

\* the sides in the order applyCellStyle applies the declared ones
SideOrder == <<"top", "right", "bottom", "left">>

RECURSIVE OwnSides(_, _, _, _, _)
\* the declared sides of the cell's border from the i-th on
OwnSides(td, border, i, colNum, maxCol) ==
    IF i > Len(SideOrder) THEN td
    ELSE OwnSides(applyBorderSide(td, SideOrder[i], border[SideOrder[i]],
                                  colNum, colNum, maxCol),
                  border, i + 1, colNum, maxCol)

\* the neighbours applyCellStyle asks, in its order: the side to fill, the
\* neighbour's facing side, and where the neighbour is
Probes ==
    <<[side |-> "left", opposite |-> "right", dr |-> 0, dc |-> -1],
      [side |-> "right", opposite |-> "left", dr |-> 0, dc |-> 1],
      [side |-> "top", opposite |-> "bottom", dr |-> -1, dc |-> 0],
      [side |-> "bottom", opposite |-> "top", dr |-> 1, dc |-> 0]>>

\* a side takes the facing side of the neighbour's border, if that declares it
InferFrom(td, probe, neighbourBorder, colNum, maxCol) ==
    IF neighbourBorder # Null /\ neighbourBorder[probe.opposite] # Null
    THEN applyBorderSide(td, probe.side, neighbourBorder[probe.opposite],
                         colNum, colNum, maxCol)
    ELSE td

\* one inference step of applyCellStyle: only for a side still empty, for left only
\* past column 1, for top only past row 1
InferSide(td, probe, doc, rowNum, colNum, maxCol) ==
    IF \/ BorderOf(td, probe.side) # Null
       \/ rowNum + probe.dr < 1
       \/ colNum + probe.dc < 1
    THEN td
    ELSE InferFrom(td, probe,
                   getBorderForCell(doc, rowNum + probe.dr, colNum + probe.dc),
                   colNum, maxCol)

RECURSIVE InferSides(_, _, _, _, _, _)
InferSides(td, doc, i, rowNum, colNum, maxCol) ==
    IF i > Len(Probes) THEN td
    ELSE InferSides(InferSide(td, Probes[i], doc, rowNum, colNum, maxCol),
                    doc, i + 1, rowNum, colNum, maxCol)

\* the border part of applyCellStyle: the declared sides, then the neighbours'
ApplyBorders(td, cellStyle, doc, rowNum, colNum, maxCol) ==
    InferSides(IF At(borders, cellStyle.borderId) = Null THEN td
               ELSE OwnSides(td, At(borders, cellStyle.borderId), 1, colNum, maxCol),
               doc, 1, rowNum, colNum, maxCol)

\* the alignment part of applyCellStyle
ApplyAlignment(td, cellStyle) ==
    LET a == cellStyle.alignment
    IN  IF a = Null THEN td
        ELSE [td EXCEPT
                !.textAlign = IF a.horizontal # "" THEN a.horizontal ELSE @,
                !.verticalAlign = IF a.vertical = "" THEN @
                                  ELSE IF a.vertical = "top" THEN "top"
                                  ELSE IF a.vertical = "center" THEN "middle"
                                  ELSE "bottom",
                !.wrap = a.wrapText \/ @,
                !.paddingLeft = IF a.indent # 0 THEN a.indent * 10 ELSE @]

\* applyCellStyle(td, cellStyle, rowNum, colNum, resolveStyleIndex)
applyCellStyle(td, cellStyle, doc, rowNum, colNum, maxCol) ==
    IF cellStyle = Null THEN td
    ELSE ApplyAlignment(
            ApplyBorders(ApplyFill(ApplyFont(td, cellStyle), cellStyle),
                         cellStyle, doc, rowNum, colNum, maxCol),
            cellStyle)

\* the cells along one edge of a merge, in the order applyMergedBorders scans them
EdgeCells(merge, side) ==
    IF side \in {"top", "bottom"}
    THEN [i \in 1..(merge.e.c - merge.s.c + 1) |->
            [r |-> IF side = "top" THEN merge.s.r ELSE merge.e.r,
             c |-> merge.s.c + i - 1]]
    ELSE [i \in 1..(merge.e.r - merge.s.r + 1) |->
            [r |-> merge.s.r + i - 1,
             c |-> IF side = "left" THEN merge.s.c ELSE merge.e.c]]

\* the side declared by the first cell along the edge that declares it, Null if none
DeclaredAlong(doc, edge, side) ==
    LET declaring == {i \in DOMAIN edge :
                         /\ getBorderForCell(doc, edge[i].r, edge[i].c) # Null
                         /\ getBorderForCell(doc, edge[i].r, edge[i].c)[side] # Null}
    IN  IF declaring = {} THEN Null
        ELSE getBorderForCell(doc, edge[MinOf(declaring)].r, edge[MinOf(declaring)].c)[side]

\* one side of applyMergedBorders: a side still empty takes the declared side of
\* the first cell along that edge of the rectangle that has one; the outer columns
\* are those of the rectangle
MergedSide(td, side, doc, merge, maxCol) ==
    IF BorderOf(td, side) # Null THEN td
    ELSE applyBorderSide(td, side, DeclaredAlong(doc, EdgeCells(merge, side), side),
                         merge.s.c, merge.e.c, maxCol)

\* the sides in the order applyMergedBorders fills them
MergedOrder == <<"top", "bottom", "left", "right">>

RECURSIVE MergedSides(_, _, _, _, _)
MergedSides(td, doc, merge, i, maxCol) ==
    IF i > Len(MergedOrder) THEN td
    ELSE MergedSides(MergedSide(td, MergedOrder[i], doc, merge, maxCol),
                     doc, merge, i + 1, maxCol)

\* applyMergedBorders(td, rowNum, colNum, merge, resolveStyleIndex), the merge given
\* by its first and last cell
applyMergedBorders(td, doc, merge, maxCol) == MergedSides(td, doc, merge, 1, maxCol)

\* whether the alignment of a cell format rules overflow out
AlignmentBlocks(alignment, withWrap) ==
    /\ alignment # Null
    /\ \/ withWrap /\ alignment.wrapText
       \/ alignment.horizontal \in {"center", "right", "justify", "distributed"}
       \/ alignment.shrinkToFit
       \/ alignment.textRotation # 0

\* the text does not reach past the cell: textWidth <= Math.max(0, cellWidth - paddingX)
Fits(text, colWidths, colNum, currMDW) ==
    measureTextWidth(text, currMDW)
        <= Max2(0, calcColumnWidthPx(WidthOrDefault(colWidths, colNum), currMDW) - paddingX)

\* endCol > colNum ? endCol : null
EndOrNull(endCol, colNum) == IF endCol > colNum THEN endCol ELSE NoOverflow

\* the tests of getOverflowEndCol on the cell's own text
TextOverflows(text, doc, rowNum, colNum, colWidths, currMDW) ==
    /\ text # Str("")
    /\ MergeSpan(doc, rowNum, colNum) = Null
    /\ ~Fits(text, colWidths, colNum, currMDW)

\* the alignment test of getOverflowEndCol without wrapText
OverflowBlocked_WrapIgnored(cellElem, styleIndex) ==
    \/ cellElem = Null
    \/ cellElem.t \notin {"s", "str", "inlineStr"}
    \/ AlignmentBlocks(IF At(cellXfs, styleIndex) = Null THEN Null
                       ELSE At(cellXfs, styleIndex).alignment, FALSE)

\* the tests of getOverflowEndCol on the cell's type and alignment
OverflowBlocked(cellElem, styleIndex) ==
    \/ cellElem = Null
    \/ cellElem.t \notin {"s", "str", "inlineStr"}
    \/ AlignmentBlocks(IF At(cellXfs, styleIndex) = Null THEN Null
                       ELSE At(cellXfs, styleIndex).alignment, TRUE)

\* getOverflowEndCol(cellElem, styleIndex, rowNum, colNum, cellMap, mergeSpanMap,
\* resolveStyleIndex) with the sheet globals it reads: the last column the text of
\* the cell runs over, NoOverflow for null.  The display text is asked for with the
\* format record where an index is expected, which reads as no format.
getOverflowEndCol(doc, cellElem, styleIndex, rowNum, colNum, maxCol, colWidths, currMDW) ==
    IF OverflowBlocked(cellElem, styleIndex) THEN NoOverflow
    ELSE IF ~TextOverflows(getCellDisplayText(cellElem, NoStyle), doc, rowNum, colNum,
                           colWidths, currMDW)
    THEN NoOverflow
    ELSE EndOrNull(OverflowScan(doc, rowNum, colNum + 1, maxCol, colNum), colNum)

\* renderCell(td, cellElem, styleIndex, rowNum, colNum, resolveStyleIndex,
\* overflowEndCol, hyperlinkMap) for a sheet without hyperlinks
renderCell(td, doc, cellElem, styleIndex, rowNum, colNum, maxCol) ==
    LET resolvedStyleIndex ==
            IF styleIndex # NoStyle THEN styleIndex
            ELSE IF cellElem # Null /\ cellElem.s # NoAttr THEN AttrOr0(cellElem.s)
            ELSE 0
        cellStyle == At(cellXfs, resolvedStyleIndex)
        isNumber == cellElem # Null /\ cellElem.t \in {"", "n"}
        value == IF cellElem = Null THEN Str("")
                 ELSE IF isNumber /\ cellElem.v.k = "num" /\ cellStyle # Null
                 THEN formatNumber(cellElem.v.f, cellStyle.numFmtId)
                 ELSE CellValue(cellElem)
    IN  applyCellStyle([td EXCEPT !.text = value, !.number = isNumber],
                       cellStyle, doc, rowNum, colNum, maxCol)

(***************************************************************************)
(* parseInt and parseFreezePanes.  Attribute texts are sequences of        *)
(* characters; a missing attribute and an empty one are both Null, which   *)
(* the code does not tell apart (both are falsy).                          *)
(***************************************************************************)
RECURSIVE SkipSpaces(_)
\* the text without its leading white space
SkipSpaces(text) ==
    IF text # <<>> /\ Head(text) = " " THEN SkipSpaces(Tail(text)) ELSE text

\* the digits of a radix
RadixDigits(radix) == {LowerHex[v] : v \in 1..radix} \cup {UpperHex[v] : v \in 1..radix}

RECURSIVE DigitsValue(_, _, _)
\* the value of the longest prefix of digits of the radix, after the value acc
DigitsValue(text, radix, acc) ==
    IF text = <<>> \/ Head(text) \notin RadixDigits(radix) THEN acc
    ELSE DigitsValue(Tail(text), radix, radix * acc + HexVal(Head(text)))

\* the text after an optional sign
Unsigned(text) == IF text # <<>> /\ Head(text) \in {"+", "-"} THEN Tail(text) ELSE text

\* whether the digits are hexadecimal: a 0x or 0X prefix
IsHexText(text) == Len(text) >= 2 /\ text[1] = "0" /\ text[2] \in {"x", "X"}

\* parseInt(text) is NaN: no digit after the white space, the sign and the prefix
ParseIntIsNaN(text) ==
    LET body == Unsigned(SkipSpaces(text))
    IN  IF IsHexText(body)
        THEN Len(body) < 3 \/ body[3] \notin RadixDigits(16)
        ELSE body = <<>> \/ Head(body) \notin RadixDigits(10)

\* parseInt(text) || 0
ParseIntOr0(text) ==
    LET trimmed == SkipSpaces(text)
        body == Unsigned(trimmed)
        magnitude == IF IsHexText(body) THEN DigitsValue(Tail(Tail(body)), 16, 0)
                     ELSE DigitsValue(body, 10, 0)
    IN  IF ParseIntIsNaN(text) THEN 0
        ELSE IF Head(trimmed) = "-" THEN 0 - magnitude
        ELSE magnitude

\* a pane element
Pane(state, xSplit, ySplit) == [state |-> state, xSplit |-> xSplit, ySplit |-> ySplit]

\* parseFreezePanes(doc), of the first pane element of the sheet views (Null: none)
parseFreezePanes(pane) ==
    IF pane = Null \/ pane.state \notin {"frozen", "frozenSplit"}
    THEN [frozenRows |-> 0, frozenCols |-> 0, isFrozen |-> FALSE]
    ELSE [frozenRows |-> IF pane.ySplit # Null THEN ParseIntOr0(pane.ySplit) ELSE 0,
          frozenCols |-> IF pane.xSplit # Null THEN ParseIntOr0(pane.xSplit) ELSE 0,
          isFrozen |-> TRUE]

(***************************************************************************)
(* Cell references and column names, as sequences of characters.           *)
(***************************************************************************)
Letters ==
    <<"A", "B", "C", "D", "E", "F", "G", "H", "I", "J", "K", "L", "M",
      "N", "O", "P", "Q", "R", "S", "T", "U", "V", "W", "X", "Y", "Z">>

\* ch >= 'A' && ch <= 'Z'
IsLetter(ch) == \E k \in DOMAIN Letters : Letters[k] = ch

\* ch.charCodeAt(0) - 64 of a capital letter
LetterVal(ch) == CHOOSE k \in DOMAIN Letters : Letters[k] = ch

RECURSIVE colName(_)
\* colName in plain base 26, without the - 1 of the bijective scheme
colName_ZeroBased(n) ==
    IF n > 0 THEN colName(n \div 26) \o <<Letters[(n % 26) + 1]>>
    ELSE <<>>

\* colName(n): the letters of column n, the empty string for n <= 0
colName(n) ==
    IF n > 0 THEN colName((n - 1) \div 26) \o <<Letters[((n - 1) % 26) + 1]>>
    ELSE <<>>

RECURSIVE RefCol(_, _)
\* col of the loop of cellRef over the characters of ref, after the value col
RefCol(ref, col) ==
    IF ref = <<>> THEN col
    ELSE RefCol(Tail(ref), IF IsLetter(Head(ref)) THEN col * 26 + LetterVal(Head(ref))
                           ELSE col)

\* row of the loop of cellRef: the characters that are no capital letters
RefRow(ref) == SelectSeq(ref, LAMBDA ch : ~IsLetter(ch))

\* cellRef(ref): { r: parseInt(row) || 1, c: col || 1 }, { r: 1, c: 1 } without ref
cellRef(ref) ==
    IF ref = Null THEN [r |-> 1, c |-> 1]
    ELSE [r |-> IF ParseIntOr0(RefRow(ref)) = 0 THEN 1 ELSE ParseIntOr0(RefRow(ref)),
          c |-> IF RefCol(ref, 0) = 0 THEN 1 ELSE RefCol(ref, 0)]


(***************************************************************************)
(* renderSheet, for sheets whose rows are in ascending order and at most   *)
(* 1000, without hyperlinks.                                               *)
(***************************************************************************)
\* measureMaxDigitWidth(): the canvas is taken to measure the widest digit at 7 px
measureMaxDigitWidth == 7

\* the td the cell loop creates: with the spans of the merge for its first cell
NewTd(doc, rowNum, c) ==
    IF IsMaster(doc, rowNum, c)
    THEN [DefaultTd EXCEPT
            !.rowSpan = MergeSpan(doc, rowNum, c).e.r - MergeSpan(doc, rowNum, c).s.r + 1,
            !.colSpan = MergeSpan(doc, rowNum, c).e.c - MergeSpan(doc, rowNum, c).s.c + 1]
    ELSE DefaultTd

\* the renderCell call of the cell loop: for a c element, and for a missing one
\* whose position resolves to a style index
WithCell(td, doc, cellElem, resolvedStyleIndex, rowNum, c, maxCol) ==
    IF cellElem # Null \/ resolvedStyleIndex # NoStyle
    THEN renderCell(td, doc, cellElem, resolvedStyleIndex, rowNum, c, maxCol)
    ELSE td

\* the overflow the cell loop computes, for a c element only
WithOverflow(td, doc, cellElem, resolvedStyleIndex, rowNum, c, maxCol, colWidths, currMDW) ==
    IF cellElem = Null THEN td
    ELSE [td EXCEPT !.overflow = getOverflowEndCol(doc, cellElem, resolvedStyleIndex,
                                                   rowNum, c, maxCol, colWidths, currMDW)]

\* the applyMergedBorders call of the cell loop, for the first cell of a merge
WithMergedBorders(td, doc, rowNum, c, maxCol) ==
    IF IsMaster(doc, rowNum, c)
    THEN applyMergedBorders(td, doc, MergeSpan(doc, rowNum, c), maxCol)
    ELSE td

\* the td renderSheet builds for column c of the row element with number rowNum
RenderTd(doc, rowNum, c, maxCol, colWidths, currMDW) ==
    WithMergedBorders(
        WithOverflow(
            WithCell(NewTd(doc, rowNum, c), doc, CellAt(doc, rowNum, c),
                     resolveStyleIndex(doc, rowNum, c), rowNum, c, maxCol),
            doc, CellAt(doc, rowNum, c), resolveStyleIndex(doc, rowNum, c),
            rowNum, c, maxCol, colWidths, currMDW),
        doc, rowNum, c, maxCol)

\* the body renderSheet builds: a td per position, none for the hidden cells of a
\* merge in a row that has a row element, bare tds for the rows without one
RenderedCells(doc, maxCol, colWidths, currMDW) ==
    LET lastRow == MaxOf({doc.rows[i].r : i \in DOMAIN doc.rows})
        shown == {p \in (1..lastRow) \X (1..maxCol) :
                     RowOf(doc, p[1]) = Null \/ ~IsHidden(doc, p[1], p[2])}
    IN  [p \in shown |->
            IF RowOf(doc, p[1]) = Null THEN DefaultTd
            ELSE RenderTd(doc, p[1], p[2], maxCol, colWidths, currMDW)]

\* the widths of the col elements of the colgroup, px, after the row header's
Colgroup(colWidths, maxCol, currMDW) ==
    [c \in 1..maxCol |-> calcColumnWidthPx(WidthOrDefault(colWidths, c), currMDW)]

(***************************************************************************)
(* Frozen panes and row heights.  A worksheet document may carry a pane    *)
(* field (the first pane element of its sheet views, Null for none), a row *)
(* an ht (a number, Null for none) and a customHeight attribute ("" for    *)
(* none); a document or row without the field has none.  Heights and row   *)
(* offsets are rationals, px.                                              *)
(***************************************************************************)
PaneOf(doc) == IF "pane" \in DOMAIN doc THEN doc.pane ELSE Null

RowHt(row) == IF "ht" \in DOMAIN row THEN row.ht ELSE Null

RowCustomHeight(row) == IF "customHeight" \in DOMAIN row THEN row.customHeight ELSE ""

defaultRowHeight == 20

headerHeight == 22

rowHeaderWidth == 46

\* parseFloat(ht) * 1.33
HtPx(ht) == FMul(ht, Frac(133, 100))

\* rowHeights[rowNum] of renderSheet for a row element
RowHeightInfo(row) ==
    [height |-> IF RowCustomHeight(row) = "true" /\ RowHt(row) # Null
                THEN HtPx(RowHt(row)) ELSE Null,
     calcHeight |-> IF RowHt(row) # Null THEN HtPx(RowHt(row))
                    ELSE FInt(defaultRowHeight)]

\* the height the loop over the frozen rows adds for row r
CalcHeightOf(doc, r) ==
    IF RowOf(doc, r) # Null THEN RowHeightInfo(RowOf(doc, r)).calcHeight
    ELSE FInt(defaultRowHeight)

RECURSIVE CumTop(_, _, _, _)
\* cumTop when the loop over the frozen rows reaches row upTo, from row r with
\* the value acc
CumTop(doc, r, upTo, acc) ==
    IF r >= upTo THEN acc
    ELSE CumTop(doc, r + 1, upTo, FAdd(acc, CalcHeightOf(doc, r)))

\* frozenRowTops of renderSheet
FrozenRowTops(doc, freezeInfo) ==
    IF ~freezeInfo.isFrozen THEN <<>>
    ELSE [r \in 1..freezeInfo.frozenRows |-> CumTop(doc, 1, r, FInt(headerHeight))]

\* tr.style.top of the body rows: of the frozen ones among the rows rendered
RowTops(doc, freezeInfo, lastRow) ==
    [r \in {q \in 1..lastRow : freezeInfo.isFrozen /\ q <= freezeInfo.frozenRows} |->
        FrozenRowTops(doc, freezeInfo)[r]]

\* tr.style.height of the body rows: of the row elements with a custom height
RowHeights(doc) ==
    [r \in {doc.rows[i].r : i \in {k \in DOMAIN doc.rows :
                                      RowHeightInfo(doc.rows[k]).height # Null}} |->
        RowHeightInfo(RowOf(doc, r)).height]

RECURSIVE FrozenColOffset(_, _, _, _, _, _, _)
\* frozenColOffset when the cell loop of the row reaches column upTo, from column
\* c with the value acc: a hidden cell of a merge is passed over by continue
FrozenColOffset(doc, rowNum, c, upTo, acc, freezeInfo, colWidths) ==
    IF c >= upTo THEN acc
    ELSE FrozenColOffset(doc, rowNum, c + 1, upTo,
                         IF ~IsHidden(doc, rowNum, c) /\ c <= freezeInfo.frozenCols
                         THEN acc + calcColumnWidthPx(WidthOrDefault(colWidths, c),
                                                      measureMaxDigitWidth)
                         ELSE acc,
                         freezeInfo, colWidths)

\* td.style.left of the cells: of the tds of the frozen columns in the rows that
\* have a row element
Lefts(doc, freezeInfo, maxCol, colWidths) ==
    [p \in {q \in {doc.rows[i].r : i \in DOMAIN doc.rows} \X (1..maxCol) :
                /\ freezeInfo.isFrozen
                /\ q[2] <= freezeInfo.frozenCols
                /\ ~IsHidden(doc, q[1], q[2])} |->
        FrozenColOffset(doc, p[1], 1, p[2], rowHeaderWidth, freezeInfo, colWidths)]

White == <<"#", "f", "f", "f", "f", "f", "f">>

\* the cells of the frozen rows and columns get a white background where they
\* have none; the tds of the rows without a row element are left bare
WithFrozenBackground(cells, doc, freezeInfo) ==
    [p \in DOMAIN cells |->
        IF /\ freezeInfo.isFrozen
           /\ RowOf(doc, p[1]) # Null
           /\ (p[1] <= freezeInfo.frozenRows \/ p[2] <= freezeInfo.frozenCols)
           /\ cells[p].backgroundColor = Null
        THEN [cells[p] EXCEPT !.backgroundColor = White]
        ELSE cells[p]]

\* what the table wrapper shows after renderSheet(doc)
EmptySheet == [kind |-> "emptySheet"]

LoadError == [kind |-> "loadError"]

RenderedTable(doc) ==
    IF doc.rows = <<>> THEN EmptySheet
    ELSE [kind |-> "table", doc |-> doc, maxCol |-> MaxColOf(doc),
          colgroup |-> Colgroup(ColWidths(doc), MaxColOf(doc), measureMaxDigitWidth),
          rowTop |-> RowTops(doc, parseFreezePanes(PaneOf(doc)),
                             MaxOf({doc.rows[i].r : i \in DOMAIN doc.rows})),
          rowHeight |-> RowHeights(doc),
          left |-> Lefts(doc, parseFreezePanes(PaneOf(doc)), MaxColOf(doc), ColWidths(doc)),
          cells |-> WithFrozenBackground(
                        RenderedCells(doc, MaxColOf(doc), ColWidths(doc),
                                      measureMaxDigitWidth),
                        doc, parseFreezePanes(PaneOf(doc)))]

\* the tables a render reads
TablesRead ==
    [themeColors |-> themeColors, fonts |-> fonts, fills |-> fills, borders |-> borders,
     cellXfs |-> cellXfs, sharedStrings |-> sharedStrings, numFmts |-> numFmts]

\* renderSheet(doc, sheetRelsDoc) as the last step of the loadSheet call i: the
\* sheet globals are set before the cells are built; an empty sheet returns early
RenderSheet(i) ==
    /\ i \in DOMAIN sheetLoads
    /\ sheetLoads[i].pc = "xml"
    /\ LET doc == sheetLoads[i].zip.sheets[sheetLoads[i].sheetPath]
       IN  /\ currentMDW' = measureMaxDigitWidth
           /\ tableWrapper' = RenderedTable(doc)
           /\ IF doc.rows = <<>>
              THEN UNCHANGED <<currentMaxCol, currentColWidths>>
              ELSE /\ currentMaxCol' = MaxColOf(doc)
                   /\ currentColWidths' = ColWidths(doc)
           /\ UNCHANGED pdfVars
           /\ call' = [fn |-> "renderSheet",
                       arg |-> [zip |-> sheetLoads[i].zip.name,
                                sheet |-> sheetLoads[i].sheet.name],
                       out |-> TablesRead]
    /\ sheetLoads' = [k \in 1..(Len(sheetLoads) - 1) |->
                         IF k < i THEN sheetLoads[k] ELSE sheetLoads[k + 1]]
    /\ UNCHANGED <<themeColors, fonts, fills, borders, cellXfs, sharedStrings, numFmts,
                   sheetTabs, uploadWrapper, loads>>

(***************************************************************************)
(* Packages.  A zip is [name, theme, styles, sharedStrings, workbook, rels, *)
(* sheets]: the parts by what they hold (Null: the part is missing), the   *)
(* workbook as its sheet elements, the workbook relationships as           *)
(* Id -> Target, the worksheets as path -> document.  The packages carry   *)
(* no worksheet relationship parts.                                        *)
(***************************************************************************)
SheetInfo(name, id, rId) == [name |-> name, id |-> id, rId |-> rId]

\* the path loadSheet reads the sheet from: the relationship's target when the
\* relationships part has one for the sheet, else the path built from the sheet id
SheetPath(sheetInfo, zip) ==
    IF zip.rels # Null /\ sheetInfo.rId \in DOMAIN zip.rels
    THEN "xl/" \o zip.rels[sheetInfo.rId]
    ELSE "xl/worksheets/sheet" \o sheetInfo.id \o ".xml"

\* the tab buttons setupTabs builds: each closes over its sheet and the zip, the
\* first has the class active
Tabs(sheets, zip) ==
    [i \in DOMAIN sheets |-> [sheet |-> sheets[i], zip |-> zip, active |-> i = 1]]

\* the click handler's class changes: active off every button, then on button k
Activate(tabs, k) == [j \in DOMAIN tabs |-> [tabs[j] EXCEPT !.active = (j = k)]]

\* the page once handleFile(zip) has run to its end on a fresh page and the
\* loadSheet call it made for the first sheet waits for the worksheet text
Loaded(zip) ==
    /\ themeColors = ParseThemeResult(zip.theme)
    /\ fonts = ParseStylesResult(zip.styles).fonts
    /\ fills = ParseStylesResult(zip.styles).fills
    /\ borders = ParseStylesResult(zip.styles).borders
    /\ cellXfs = ParseStylesResult(zip.styles).cellXfs
    /\ numFmts = ParseStylesResult(zip.styles).numFmts
    /\ sharedStrings = ParseSharedStringsResult(zip.sharedStrings)
    /\ sheetTabs = Tabs(zip.workbook, zip)
    /\ uploadWrapper = "hide"
    /\ PdfViewerInit
    /\ sheetLoads = <<[sheet |-> zip.workbook[1], zip |-> zip,
                       sheetPath |-> SheetPath(zip.workbook[1], zip), pc |-> "xml"]>>
    /\ loads = <<>>
    /\ tableWrapper = NoTable
    /\ SheetGlobalsInit
    /\ call = Null

BlackArgb == Argb(<<"F", "F">> \o Str6("0", "0", "0", "0", "0", "0"))

YellowArgb == Argb(<<"F", "F">> \o Str6("F", "F", "F", "F", "0", "0"))

BookFonts ==
    <<Font("Calibri", 11, FALSE, Null),
      Font("Calibri", 11, TRUE, Theme(1, FInt(0)))>>

BookFills ==
    <<PatternFill("none", Null), PatternFill("gray125", Null),
      PatternFill("solid", YellowArgb)>>

\* border 0 none, 1 a thin black box, 2 left only without a colour, 3 right only in
\* the system foreground colour (indexed 64, which does not resolve), 4 bottom only
\* in a theme colour, 5 right only
BookBorders ==
    <<Border(NoSide, NoSide, NoSide, NoSide),
      Border(Side("thin", BlackArgb), Side("thin", BlackArgb),
             Side("thin", BlackArgb), Side("thin", BlackArgb)),
      Border(Side("medium", Null), NoSide, NoSide, NoSide),
      Border(NoSide, Side("thin", Indexed(64)), NoSide, NoSide),
      Border(NoSide, NoSide, NoSide, Side("thick", Theme(4, FInt(0)))),
      Border(NoSide, Side("dashed", BlackArgb), NoSide, NoSide)>>

BookCellStyleXfs ==
    <<[alignment |-> Null],
      [alignment |-> Alignment("center", "", FALSE, FALSE, 0, 0)]>>

\* format 0 plain, 1 bold on yellow in a box with two decimals, 2..5 one border
\* each, 6 wrapped, 7 centred, 8 left, 9 shrunk to fit, 10 rotated, 11 alignment
\* from its base format, 12 alignment switched off
BookCellXfs ==
    <<Xf(0, 0, 0, 0, 0, "", Null),
      Xf(1, 2, 1, 2, 0, "", Null),
      Xf(0, 0, 2, 0, 0, "", Null),
      Xf(0, 0, 3, 0, 0, "", Null),
      Xf(0, 0, 4, 0, 0, "", Null),
      Xf(0, 0, 5, 0, 0, "", Null),
      Xf(0, 0, 0, 0, 0, "1", Alignment("", "", TRUE, FALSE, 0, 0)),
      Xf(0, 0, 0, 0, 0, "1", Alignment("center", "center", FALSE, FALSE, 0, 0)),
      Xf(0, 0, 0, 0, 0, "1", Alignment("left", "", FALSE, FALSE, 0, 1)),
      Xf(0, 0, 0, 0, 0, "1", Alignment("", "", FALSE, TRUE, 0, 0)),
      Xf(0, 0, 0, 0, 0, "1", Alignment("", "", FALSE, FALSE, 90, 0)),
      Xf(NoAttr, NoAttr, NoAttr, NoAttr, 1, "", Null),
      Xf(0, 0, 0, 0, 0, "0", Alignment("", "", TRUE, FALSE, 0, 0))>>

BookStyles ==
    [numFmts |-> CustomFmts, fonts |-> BookFonts, fills |-> BookFills,
     borders |-> BookBorders, cellStyleXfs |-> BookCellStyleXfs,
     cellXfs |-> BookCellXfs]

\* the same styles with a default format (format 0) that is bold on yellow in a box
StyledDefaultStyles ==
    [BookStyles EXCEPT !.cellXfs = [BookCellXfs EXCEPT ![1] = BookCellXfs[2]]]

ShortText == "Hi"

LongText == "A text wider than a column"

BookStrings ==
    <<<<T(ShortText)>>, <<T(LongText)>>,
      <<R(<<T("Rich"), Br>>), R(<<T("text")>>)>>, <<>>>>

\* a one-sheet workbook around a worksheet document
Book(stylesPart, doc) ==
    [name |-> "book.xlsx", theme |-> Null, styles |-> stylesPart,
     sharedStrings |-> BookStrings,
     workbook |-> <<SheetInfo("Sheet1", "1", "rId1")>>,
     rels |-> [rId1 |-> "worksheets/sheet1.xml"],
     sheets |-> [p \in {"xl/worksheets/sheet1.xml"} |-> doc]]

(***************************************************************************)
(* Worksheet documents for the rendering specifications.                   *)
(***************************************************************************)
\* the elements of a set of numbers in ascending order
Ascending(S) ==
    [i \in 1..Cardinality(S) |-> CHOOSE x \in S : Cardinality({y \in S : y < x}) = i - 1]

\* the worksheet with the c elements of cells (position -> element), the row styles
\* of rowStyles (row -> index), one col element per entry of colDefs and the merges:
\* a row element for every row that has a cell or a style
MakeDoc(cells, rowStyles, colDefs, merges) ==
    LET rowNums == {p[1] : p \in DOMAIN cells} \cup DOMAIN rowStyles
        order == Ascending(rowNums)
    IN  [cols |-> colDefs,
         merges |-> merges,
         rows |-> [i \in DOMAIN order |->
                     [r |-> order[i],
                      s |-> IF order[i] \in DOMAIN rowStyles THEN rowStyles[order[i]]
                            ELSE NoAttr,
                      cells |-> [c \in {p[2] : p \in {q \in DOMAIN cells : q[1] = order[i]}}
                                    |-> cells[<<order[i], c>>]]]]]

Col(min, max, width, style) == [min |-> min, max |-> max, width |-> width, style |-> style]

Merge(r1, c1, r2, c2) == [s |-> [r |-> r1, c |-> c1], e |-> [r |-> r2, c |-> c2]]

\* a c element holding the number 1234.5, a shared string, nothing
NumberCell(s) == Cell("", s, VNum(Frac(2469, 2)), Null)

StringCell(s, index) == Cell("s", s, VNum(FInt(index)), Null)

BlankCell(s) == Cell("", s, NoV, Null)

\* the render of the sheet on show, position -> td
Shown == tableWrapper.kind = "table"

(***************************************************************************)
(* The style cascade: sheets with at most one directly styled cell, one    *)
(* styled row and one styled column, the other cells all there without a   *)
(* style or all missing, under a plain and under a styled default format.  *)
(***************************************************************************)
CascadeRows == 2

CascadeCols == 2

\* 13 is past the end of the format table
CascadeCellStyles == {NoAttr, 0, 1, 4, 13}

CascadeRowStyles == {0, 1}

CascadeColStyles == {0, 4}

CascadeDoc(filled, p, s, rowNum, rowStyle, colNum, colStyle) ==
    MakeDoc([q \in (IF filled THEN (1..CascadeRows) \X (1..CascadeCols) ELSE {})
                    \cup (IF p[1] = 0 THEN {} ELSE {p}) |->
                IF q = p THEN NumberCell(s) ELSE NumberCell(NoAttr)],
            [r \in (IF rowNum = 0 THEN {} ELSE {rowNum}) |-> rowStyle],
            IF colNum = 0 THEN <<>> ELSE <<Col(colNum, colNum, Null, colStyle)>>,
            <<>>)

InitCascade ==
    \E stylesPart \in {BookStyles, StyledDefaultStyles},
       filled \in BOOLEAN,
       p \in {<<0, 0>>} \cup ((1..CascadeRows) \X (1..CascadeCols)),
       s \in CascadeCellStyles,
       rowNum \in 0..CascadeRows, rowStyle \in CascadeRowStyles,
       colNum \in 0..CascadeCols, colStyle \in CascadeColStyles :
        Loaded(Book(stylesPart,
                    CascadeDoc(filled, p, s, rowNum, rowStyle, colNum, colStyle)))

NextCascade == \E i \in DOMAIN sheetLoads : RenderSheet(i)

SpecCascade == InitCascade /\ [][NextCascade]_vars

\* the worksheet documents on the page: the one on show and those of the loadSheet
\* calls in flight
DocsAt ==
    (IF Shown THEN {tableWrapper.doc} ELSE {})
    \cup {sheetLoads[i].zip.sheets[sheetLoads[i].sheetPath] : i \in DOMAIN sheetLoads}

CellDeclares(doc, r, c) ==
    \E i \in DOMAIN doc.rows :
        /\ doc.rows[i].r = r
        /\ c \in DOMAIN doc.rows[i].cells
        /\ doc.rows[i].cells[c].s # NoAttr

RowDeclares(doc, r) == \E i \in DOMAIN doc.rows : doc.rows[i].r = r /\ doc.rows[i].s # NoAttr

ColDeclares(doc, c) ==
    \E i \in DOMAIN doc.cols :
        doc.cols[i].min <= c /\ c <= doc.cols[i].max /\ doc.cols[i].style # NoAttr

\* C1: for every (row, col) resolveStyleIndex gives the style index of the cell if
\* the cell declares one, otherwise that of the row if the row declares one,
\* otherwise that of the column if the column declares one, otherwise none; a cell
\* without a style of its own in a row of style R and a column of style C gets R.
C1_CascadePrecedence ==
    \A doc \in DocsAt : \A r \in 1..(CascadeRows + 1), c \in 1..(CascadeCols + 1) :
        LET index == resolveStyleIndex(doc, r, c)
        IN  /\ CellDeclares(doc, r, c) =>
                \E i \in DOMAIN doc.rows :
                    doc.rows[i].r = r /\ index = doc.rows[i].cells[c].s
            /\ ~CellDeclares(doc, r, c) /\ RowDeclares(doc, r) =>
                \E i \in DOMAIN doc.rows : doc.rows[i].r = r /\ index = doc.rows[i].s
            /\ ~CellDeclares(doc, r, c) /\ ~RowDeclares(doc, r) /\ ColDeclares(doc, c) =>
                \E i \in DOMAIN doc.cols :
                    /\ doc.cols[i].min <= c /\ c <= doc.cols[i].max
                    /\ index = doc.cols[i].style
            /\ ~CellDeclares(doc, r, c) /\ ~RowDeclares(doc, r) /\ ~ColDeclares(doc, c) =>
                index = NoStyle

\* a rendered cell without a style of its own, in a row of style 1 (bold) and a
\* column of style 4 (not bold), resolved to 1 and drawn bold
C1_Witness ==
    /\ Shown
    /\ \E p \in DOMAIN tableWrapper.cells :
        /\ CellAt(tableWrapper.doc, p[1], p[2]) # Null
        /\ ~CellDeclares(tableWrapper.doc, p[1], p[2])
        /\ RowOf(tableWrapper.doc, p[1]).s = 1
        /\ ColStyle(tableWrapper.doc, p[2]) = 4
        /\ resolveStyleIndex(tableWrapper.doc, p[1], p[2]) = 1
        /\ tableWrapper.cells[p].font # Null
        /\ tableWrapper.cells[p].font.bold

\* the neighbour of (r, c) on the given side declares the facing side
NeighbourDeclares(doc, r, c, side) ==
    LET nr == IF side = "top" THEN r - 1 ELSE IF side = "bottom" THEN r + 1 ELSE r
        nc == IF side = "left" THEN c - 1 ELSE IF side = "right" THEN c + 1 ELSE c
        opposite == CASE side = "top" -> "bottom" [] side = "bottom" -> "top"
                      [] side = "left" -> "right" [] OTHER -> "left"
    IN  /\ getBorderForCell(doc, nr, nc) # Null
        /\ getBorderForCell(doc, nr, nc)[opposite] # Null

\* a td that took nothing from a cell format: no font, colours, alignment, no
\* number format but General, no border but one a neighbour declares
TookNoFormat(td, doc, r, c) ==
    /\ td.font = Null /\ td.color = Null /\ td.backgroundColor = Null
    /\ td.textAlign = "" /\ td.verticalAlign = "" /\ ~td.wrap /\ td.paddingLeft = 0
    /\ "rule" \in DOMAIN td.text => td.text.rule = "general"
    /\ \A side \in Sides : td.border[side] # Null => NeighbourDeclares(doc, r, c, side)

\* C8: a cell whose style index is missing (no cell, row or column style) or out of
\* range of the format table is rendered with all-default attributes, taking no
\* font, fill, border, number format or alignment from any cell format.
C8_MissingIndexIsNoStyle ==
    Shown =>
        \A p \in DOMAIN tableWrapper.cells :
            (At(cellXfs, resolveStyleIndex(tableWrapper.doc, p[1], p[2])) = Null)
                => TookNoFormat(tableWrapper.cells[p], tableWrapper.doc, p[1], p[2])

(***************************************************************************)
(* Borders: sheets with at most two directly styled cells, in one row or   *)
(* one column, and at most one merge; the other cells are all there        *)
(* without a style or all missing.                                         *)
(***************************************************************************)
BorderRows == 2

BorderCols == 3

\* the box, left only, right only in a colour that does not resolve, bottom only,
\* right only
BorderCellStyles == {1, 2, 3, 4, 5}

BorderGrid == (1..BorderRows) \X (1..BorderCols)

\* every rectangle of the grid of more than one cell
BorderMerges ==
    {Merge(r1, c1, r2, c2) :
        r1 \in 1..BorderRows, c1 \in 1..BorderCols,
        r2 \in 1..BorderRows, c2 \in 1..BorderCols} \cap
    {m \in [s : [r : 1..BorderRows, c : 1..BorderCols],
            e : [r : 1..BorderRows, c : 1..BorderCols]] :
        m.s.r <= m.e.r /\ m.s.c <= m.e.c /\ m.s # m.e}

\* no cell, one cell, or two cells of one row or one column
BorderStyled ==
    {Q \in SUBSET BorderGrid :
        /\ Cardinality(Q) <= 2
        /\ \A p, q \in Q : p[1] = q[1] \/ p[2] = q[2]}

BorderDoc(filled, styled, merges) ==
    MakeDoc([q \in (IF filled THEN BorderGrid ELSE {}) \cup DOMAIN styled |->
                IF q \in DOMAIN styled THEN NumberCell(styled[q]) ELSE NumberCell(NoAttr)],
            <<>>, <<>>, merges)

InitBorder ==
    \E filled \in BOOLEAN,
       P \in BorderStyled,
       merges \in {<<>>} \cup {<<m>> : m \in BorderMerges} :
        \E styled \in [P -> BorderCellStyles] :
            Loaded(Book(BookStyles, BorderDoc(filled, styled, merges)))

NextBorder == \E i \in DOMAIN sheetLoads : RenderSheet(i)

SpecBorder == InitBorder /\ [][NextBorder]_vars

\* the format of the cell at (r, c) declares the side
Declares(doc, r, c, side) ==
    getBorderForCell(doc, r, c) # Null /\ getBorderForCell(doc, r, c)[side] # Null

\* C3 (for cells outside merges): a cell that declares no right border, left of a
\* cell that declares a left border, is rendered with that border as its right
\* border; a cell that declares its own right border keeps it and never takes the
\* neighbour's; a side is only ever taken from the orthogonal neighbour on that side.
C3_SymmetricInheritance ==
    Shown =>
        \A p \in DOMAIN tableWrapper.cells :
            LET doc == tableWrapper.doc
                r == p[1]
                c == p[2]
                td == tableWrapper.cells[p]
            IN  (/\ c < tableWrapper.maxCol
                 /\ MergeSpan(doc, r, c) = Null
                 /\ MergeSpan(doc, r, c + 1) = Null)
                => /\ (Declares(doc, r, c + 1, "left") /\ ~Declares(doc, r, c, "right"))
                        => td.border["right"]
                             = BorderCss(getBorderForCell(doc, r, c + 1)["left"])
                   /\ Declares(doc, r, c, "right")
                        => td.border["right"]
                             = BorderCss(getBorderForCell(doc, r, c)["right"])
                   /\ \A side \in Sides :
                        td.border[side] # Null
                            => Declares(doc, r, c, side) \/ NeighbourDeclares(doc, r, c, side)

\* C4: no rendered cell has a border on the outward side of an edge column: none on
\* the left in column 1, none on the right where the cell's right edge is the last
\* column, a merge's first cell that spans to the last column included.
C4_NoOuterEdgeBorder ==
    Shown =>
        \A p \in DOMAIN tableWrapper.cells :
            /\ p[2] = 1 => BorderOf(tableWrapper.cells[p], "left") = Null
            /\ p[2] + tableWrapper.cells[p].colSpan - 1 = tableWrapper.maxCol
                => BorderOf(tableWrapper.cells[p], "right") = Null

(***************************************************************************)
(* Text overflow: one row, a first cell of every type and alignment in a   *)
(* default, a wide or a very narrow column, the cells right of it missing, *)
(* blank, a long text or a number, with or without one merge.              *)
(***************************************************************************)
OverflowCols == 4

\* the formats of the workbook and three more: 13 right, 14 justified, 15 distributed
OverflowStyles ==
    [BookStyles EXCEPT !.cellXfs =
        BookCellXfs \o
        <<Xf(0, 0, 0, 0, 0, "1", Alignment("right", "", FALSE, FALSE, 0, 0)),
          Xf(0, 0, 0, 0, 0, "1", Alignment("justify", "", FALSE, FALSE, 0, 0)),
          Xf(0, 0, 0, 0, 0, "1", Alignment("distributed", "", FALSE, FALSE, 0, 0))>>]

\* the long text as a shared string in format s
LongCell(s) == StringCell(s, 1)

\* what the first column holds, Null for no c element: nothing, a number, a boolean,
\* a short, an empty and a long shared string, a long inline string, a long formula
\* string, and the long shared string in every format with an alignment
FirstCells ==
    {Null, BlankCell(NoAttr), NumberCell(NoAttr), Cell("b", NoAttr, VNum(FInt(1)), Null),
     StringCell(NoAttr, 0), StringCell(NoAttr, 3), LongCell(NoAttr),
     Cell("inlineStr", NoAttr, NoV, <<T(LongText)>>),
     Cell("str", NoAttr, VText(LongText), Null)}
    \cup {LongCell(s) : s \in {6, 7, 8, 9, 10, 11, 12, 13, 14, 15}}

OtherCells == {Null, BlankCell(NoAttr), LongCell(NoAttr), NumberCell(NoAttr)}

\* the width attribute of the first column: none, 40, 1/16
FirstWidths == {Null, FInt(40), Frac(1, 16)}

OverflowMerges == {<<>>, <<Merge(1, 1, 1, 2)>>, <<Merge(1, 3, 1, 4)>>}

OverflowDoc(first, others, width, merges) ==
    LET held == [c \in 1..OverflowCols |-> IF c = 1 THEN first ELSE others[c]]
    IN  MakeDoc([p \in {<<1, c>> : c \in {k \in 1..OverflowCols : held[k] # Null}}
                    |-> held[p[2]]],
                <<>>, <<Col(1, 1, width, NoAttr)>>, merges)

\* every such row with at least one c element
InitOverflow ==
    \E first \in FirstCells,
       others \in [2..OverflowCols -> OtherCells],
       width \in FirstWidths,
       merges \in OverflowMerges :
        /\ ~(first = Null /\ \A c \in 2..OverflowCols : others[c] = Null)
        /\ Loaded(Book(OverflowStyles, OverflowDoc(first, others, width, merges)))

NextOverflow == \E i \in DOMAIN sheetLoads : RenderSheet(i)

SpecOverflow == InitOverflow /\ [][NextOverflow]_vars

\* some merge of the sheet covers (r, c)
InMerge(doc, r, c) ==
    \E i \in DOMAIN doc.merges :
        /\ doc.merges[i].s.r <= r /\ r <= doc.merges[i].e.r
        /\ doc.merges[i].s.c <= c /\ c <= doc.merges[i].e.c

\* the cell at (r, c) shows nothing: no c element, or one with an empty display text
ShowsNothing(doc, r, c) ==
    getCellDisplayText(CellAt(doc, r, c), resolveStyleIndex(doc, r, c)) = Str("")

\* the overflow of the cell at (r, c) cannot go into column k
Stops(doc, r, k, maxCol) == k > maxCol \/ InMerge(doc, r, k) \/ ~ShowsNothing(doc, r, k)

\* the alignment of the format the cell at (r, c) resolves to lets text overflow
AlignmentAllows(doc, r, c) ==
    LET cellStyle == At(cellXfs, resolveStyleIndex(doc, r, c))
    IN  \/ cellStyle = Null
        \/ cellStyle.alignment = Null
        \/ /\ ~cellStyle.alignment.wrapText
           /\ ~cellStyle.alignment.shrinkToFit
           /\ cellStyle.alignment.textRotation = 0
           /\ cellStyle.alignment.horizontal
                \notin {"center", "right", "justify", "distributed"}

\* the cell at (r, c) has a c element of a text type
IsTextual(doc, r, c) ==
    /\ CellAt(doc, r, c) # Null
    /\ CellAt(doc, r, c).t \in {"s", "str", "inlineStr"}

\* the measured width of the text of the textual cell at (r, c)
TextWidth(doc, r, c) ==
    measureTextWidth(getCellDisplayText(CellAt(doc, r, c), NoStyle), currentMDW)

\* the pixel width of column c
ColumnPx(c) == calcColumnWidthPx(WidthOrDefault(currentColWidths, c), currentMDW)

\* C5 as stated: a cell is given an overflow exactly when it is textual, not
\* wrapped, not shrunk, not rotated, not centred, right-aligned, justified or
\* distributed, in no merge, and its text is wider than its column less the padding.
C5_OverflowIff ==
    Shown =>
        \A p \in DOMAIN tableWrapper.cells :
            tableWrapper.cells[p].overflow # NoOverflow
            <=> /\ IsTextual(tableWrapper.doc, p[1], p[2])
                /\ AlignmentAllows(tableWrapper.doc, p[1], p[2])
                /\ ~InMerge(tableWrapper.doc, p[1], p[2])
                /\ TextWidth(tableWrapper.doc, p[1], p[2])
                     > ColumnPx(p[2]) - paddingX

\* C5 amended: a cell is given an overflow exactly when its type is s, str or
\* inlineStr, its alignment allows it, it is in no merge, its text is wider than
\* what is left of its column after the padding (at least 0), and the column right
\* of it is within the sheet, in no merge and shows nothing.
C5_OverflowIffRoom ==
    Shown =>
        \A p \in DOMAIN tableWrapper.cells :
            tableWrapper.cells[p].overflow # NoOverflow
            <=> /\ IsTextual(tableWrapper.doc, p[1], p[2])
                /\ AlignmentAllows(tableWrapper.doc, p[1], p[2])
                /\ ~InMerge(tableWrapper.doc, p[1], p[2])
                /\ TextWidth(tableWrapper.doc, p[1], p[2])
                     > Max2(0, ColumnPx(p[2]) - paddingX)
                /\ ~Stops(tableWrapper.doc, p[1], p[2] + 1, tableWrapper.maxCol)

\* a render in which one text cell overflows and another, as wide and as free to,
\* does not because the cell right of it shows something
C5_Witness ==
    /\ Shown
    /\ \E p \in DOMAIN tableWrapper.cells : tableWrapper.cells[p].overflow # NoOverflow
    /\ \E p \in DOMAIN tableWrapper.cells :
        /\ tableWrapper.cells[p].overflow = NoOverflow
        /\ IsTextual(tableWrapper.doc, p[1], p[2])
        /\ AlignmentAllows(tableWrapper.doc, p[1], p[2])
        /\ ~InMerge(tableWrapper.doc, p[1], p[2])
        /\ TextWidth(tableWrapper.doc, p[1], p[2]) > ColumnPx(p[2])
        /\ ~ShowsNothing(tableWrapper.doc, p[1], p[2] + 1)

\* C6: the overflow of a cell ends right before the first column that is merged,
\* shows something or lies past the max column, and is never the cell's own column;
\* so with two empty cells and then a non-empty one it is two columns.
C6_SpanExtent ==
    Shown =>
        \A p \in DOMAIN tableWrapper.cells :
            LET doc == tableWrapper.doc
                endCol == tableWrapper.cells[p].overflow
            IN  endCol # NoOverflow
                => /\ endCol > p[2]
                   /\ \A k \in (p[2] + 1)..endCol : ~Stops(doc, p[1], k, tableWrapper.maxCol)
                   /\ Stops(doc, p[1], endCol + 1, tableWrapper.maxCol)
                   /\ (/\ ShowsNothing(doc, p[1], p[2] + 1)
                       /\ ShowsNothing(doc, p[1], p[2] + 2)
                       /\ ~InMerge(doc, p[1], p[2] + 1)
                       /\ ~InMerge(doc, p[1], p[2] + 2)
                       /\ p[2] + 3 <= tableWrapper.maxCol
                       /\ ~ShowsNothing(doc, p[1], p[2] + 3))
                      => endCol = p[2] + 2

\* a text cell with two empty cells and then a non-empty one right of it, overflowing
\* two columns
C6_Witness ==
    /\ Shown
    /\ \E p \in DOMAIN tableWrapper.cells :
        /\ tableWrapper.cells[p].overflow = p[2] + 2
        /\ CellAt(tableWrapper.doc, p[1], p[2] + 1) = Null
        /\ CellAt(tableWrapper.doc, p[1], p[2] + 2) # Null
        /\ ShowsNothing(tableWrapper.doc, p[1], p[2] + 2)
        /\ ~ShowsNothing(tableWrapper.doc, p[1], p[2] + 3)

(***************************************************************************)
(* Loading.  An async function runs from one await to the next without     *)
(* interruption and may be overtaken at every await; a task is a call in   *)
(* flight with the await it waits at.                                      *)
(*   loads      : handleFile calls, [zip, pc]                              *)
(*   sheetLoads : loadSheet calls, [sheet, zip, sheetPath, pc]             *)
(* pc of handleFile: "zip" JSZip.loadAsync, "theme" / "styles" / "strings" *)
(* / "workbook" the read of that part, "themeDone" / "stylesDone" /        *)
(* "stringsDone" / "workbookDone" the await of the parse function's        *)
(* promise.  pc of loadSheet: "rels" the read of the workbook              *)
(* relationships, "xml" the read of the worksheet.                         *)
(***************************************************************************)
MaxLoads == 2

MaxSheetLoads == 2

\* a sequence without its element i
Drop(tasks, i) ==
    [k \in 1..(Len(tasks) - 1) |-> IF k < i THEN tasks[k] ELSE tasks[k + 1]]

\* loadSheet ending without a word where the worksheet part is missing
OpenSheet_Silent(sheetInfo, zip, tasks) ==
    IF SheetPath(sheetInfo, zip) \in DOMAIN zip.sheets
    THEN /\ sheetLoads' = Append(tasks, [sheet |-> sheetInfo, zip |-> zip,
                                         sheetPath |-> SheetPath(sheetInfo, zip),
                                         pc |-> "xml"])
         /\ UNCHANGED tableWrapper
    ELSE /\ sheetLoads' = tasks
         /\ UNCHANGED tableWrapper

\* the rest of loadSheet up to the read of the worksheet, from the point where the
\* path is known: a missing worksheet part shows the error and ends the call
OpenSheet(sheetInfo, zip, tasks) ==
    IF SheetPath(sheetInfo, zip) \in DOMAIN zip.sheets
    THEN /\ sheetLoads' = Append(tasks, [sheet |-> sheetInfo, zip |-> zip,
                                         sheetPath |-> SheetPath(sheetInfo, zip),
                                         pc |-> "xml"])
         /\ UNCHANGED tableWrapper
    ELSE /\ sheetLoads' = tasks
         /\ tableWrapper' = LoadError

\* loadSheet(sheetInfo, zip) up to its first await
CallLoadSheet(sheetInfo, zip) ==
    IF zip.rels # Null
    THEN /\ sheetLoads' = Append(sheetLoads, [sheet |-> sheetInfo, zip |-> zip,
                                              sheetPath |-> "", pc |-> "rels"])
         /\ UNCHANGED tableWrapper
    ELSE OpenSheet(sheetInfo, zip, sheetLoads)

\* the change or drop handler: handleFile(file) up to await JSZip.loadAsync(file).
\* The upload area is on show until processWorkbook hides it.
HandleFile(zip) ==
    /\ uploadWrapper = "show"
    /\ Len(loads) < MaxLoads
    /\ loads' = Append(loads, [zip |-> zip, pc |-> "zip"])
    /\ UNCHANGED pdfVars
    /\ call' = Null
    /\ UNCHANGED <<themeColors, fonts, fills, borders, cellXfs, sharedStrings, numFmts,
                   currentMaxCol, currentColWidths, currentMDW, sheetTabs, uploadWrapper, tableWrapper,
                   sheetLoads>>

\* parseTheme leaving the palette as it is where the theme part is missing
Unzipped_KeepsPalette(i) ==
    /\ i \in DOMAIN loads
    /\ loads[i].pc = "zip"
    /\ themeColors' = IF loads[i].zip.theme = Null THEN themeColors ELSE DEFAULT_THEME
    /\ loads' = [loads EXCEPT ![i].pc = IF loads[i].zip.theme = Null THEN "themeDone"
                                        ELSE "theme"]
    /\ UNCHANGED pdfVars
    /\ call' = Null
    /\ UNCHANGED <<fonts, fills, borders, cellXfs, sharedStrings, numFmts,
                   currentMaxCol, currentColWidths, currentMDW, sheetTabs, uploadWrapper,
                   tableWrapper, sheetLoads>>

\* the zip is open: parseTheme(zip) up to the read of the theme part
Unzipped(i) ==
    /\ i \in DOMAIN loads
    /\ loads[i].pc = "zip"
    /\ themeColors' = DEFAULT_THEME
    /\ loads' = [loads EXCEPT ![i].pc = IF loads[i].zip.theme = Null THEN "themeDone"
                                        ELSE "theme"]
    /\ UNCHANGED pdfVars
    /\ call' = Null
    /\ UNCHANGED <<fonts, fills, borders, cellXfs, sharedStrings, numFmts,
                   currentMaxCol, currentColWidths, currentMDW, sheetTabs, uploadWrapper, tableWrapper,
                   sheetLoads>>

\* the colours the rest of parseTheme writes into the palette in force
ThemeOnto(current, part) ==
    IF ~part.scheme THEN current
    ELSE [slot \in 0..11 |->
            LET name == CHOOSE r \in DOMAIN colorMap : colorMap[r] = slot
            IN  IF name \in DOMAIN part.roles
                   /\ (part.roles[name].srgb \/ part.roles[name].sys)
                THEN ParseThemeResult(part)[slot]
                ELSE current[slot]]

\* the theme part is read: the rest of parseTheme
ThemeRead(i) ==
    /\ i \in DOMAIN loads
    /\ loads[i].pc = "theme"
    /\ themeColors' = ThemeOnto(themeColors, loads[i].zip.theme)
    /\ loads' = [loads EXCEPT ![i].pc = "themeDone"]
    /\ UNCHANGED pdfVars
    /\ call' = Null
    /\ UNCHANGED <<fonts, fills, borders, cellXfs, sharedStrings, numFmts,
                   currentMaxCol, currentColWidths, currentMDW, sheetTabs, uploadWrapper, tableWrapper,
                   sheetLoads>>

\* await parseTheme(zip) is over: parseStyles(zip) up to the read of the styles part
StylesStart(i) ==
    /\ i \in DOMAIN loads
    /\ loads[i].pc = "themeDone"
    /\ fonts' = <<>> /\ fills' = <<>> /\ borders' = <<>> /\ cellXfs' = <<>>
    /\ numFmts' = <<>>
    /\ loads' = [loads EXCEPT ![i].pc = IF loads[i].zip.styles = Null THEN "stylesDone"
                                        ELSE "styles"]
    /\ UNCHANGED pdfVars
    /\ call' = Null
    /\ UNCHANGED <<themeColors, sharedStrings, currentMaxCol, currentColWidths,
                   currentMDW, sheetTabs, uploadWrapper, tableWrapper, sheetLoads>>

\* the last loop of parseStyles on one format of the table in force
MergeAlignment(style, baseCellXfs) ==
    [style EXCEPT !.alignment =
        IF style.applyAlignment = "0" THEN Null
        ELSE IF style.alignment = Null /\ style.xfId # NoAttr
                /\ style.xfId + 1 \in DOMAIN baseCellXfs
        THEN baseCellXfs[style.xfId + 1].alignment
        ELSE style.alignment]

\* numFmts[id] = code for every numFmt of the part
FmtsOnto(current, added) ==
    [id \in DOMAIN current \cup DOMAIN added |->
        IF id \in DOMAIN added THEN added[id] ELSE current[id]]

\* the styles part is read: the rest of parseStyles pushes onto the tables in force
StylesRead(i) ==
    /\ i \in DOMAIN loads
    /\ loads[i].pc = "styles"
    /\ LET part == loads[i].zip.styles
       IN  /\ numFmts' = FmtsOnto(numFmts, part.numFmts)
           /\ fonts' = fonts \o ParseStylesResult(part).fonts
           /\ fills' = fills \o ParseStylesResult(part).fills
           /\ borders' = borders \o ParseStylesResult(part).borders
           /\ cellXfs' = [k \in DOMAIN cellXfs |->
                             MergeAlignment(cellXfs[k], part.cellStyleXfs)]
                         \o ParseStylesResult(part).cellXfs
    /\ loads' = [loads EXCEPT ![i].pc = "stylesDone"]
    /\ UNCHANGED pdfVars
    /\ call' = Null
    /\ UNCHANGED <<themeColors, sharedStrings, currentMaxCol, currentColWidths,
                   currentMDW, sheetTabs, uploadWrapper, tableWrapper, sheetLoads>>

\* await parseStyles(zip) is over: parseSharedStrings(zip) up to the read of the part
StringsStart(i) ==
    /\ i \in DOMAIN loads
    /\ loads[i].pc = "stylesDone"
    /\ sharedStrings' = <<>>
    /\ loads' = [loads EXCEPT ![i].pc = IF loads[i].zip.sharedStrings = Null
                                        THEN "stringsDone" ELSE "strings"]
    /\ UNCHANGED pdfVars
    /\ call' = Null
    /\ UNCHANGED <<themeColors, fonts, fills, borders, cellXfs, numFmts,
                   currentMaxCol, currentColWidths, currentMDW, sheetTabs, uploadWrapper, tableWrapper,
                   sheetLoads>>

\* the shared strings part is read: its strings are pushed onto the table in force
StringsRead(i) ==
    /\ i \in DOMAIN loads
    /\ loads[i].pc = "strings"
    /\ sharedStrings' = sharedStrings \o ParseSharedStringsResult(loads[i].zip.sharedStrings)
    /\ loads' = [loads EXCEPT ![i].pc = "stringsDone"]
    /\ UNCHANGED pdfVars
    /\ call' = Null
    /\ UNCHANGED <<themeColors, fonts, fills, borders, cellXfs, numFmts,
                   currentMaxCol, currentColWidths, currentMDW, sheetTabs, uploadWrapper, tableWrapper,
                   sheetLoads>>

\* await parseSharedStrings(zip) is over: parseWorkbook(zip) up to the read of the
\* workbook part; without the part it throws, handleFile alerts and ends
WorkbookStart(i) ==
    /\ i \in DOMAIN loads
    /\ loads[i].pc = "stringsDone"
    /\ IF loads[i].zip.workbook = Null
       THEN /\ loads' = Drop(loads, i)
            /\ UNCHANGED pdfVars
            /\ call' = [fn |-> "alert", arg |-> [zip |-> loads[i].zip.name], out |-> Null]
       ELSE /\ loads' = [loads EXCEPT ![i].pc = "workbook"]
            /\ UNCHANGED pdfVars
            /\ call' = Null
    /\ UNCHANGED <<themeColors, fonts, fills, borders, cellXfs, sharedStrings, numFmts,
                   currentMaxCol, currentColWidths, currentMDW, sheetTabs, uploadWrapper, tableWrapper,
                   sheetLoads>>

\* a part whose text is not well-formed XML
IsMalformed(zip, part) == "malformed" \in DOMAIN zip /\ part \in zip.malformed

\* the sheets parseWorkbook finds in the workbook part.  DOMParser does not throw on
\* text that is not well-formed: the document it returns holds a parsererror
\* element and, depending on the browser, nothing else or the elements read
\* before the error (the workbook field of such a package).
ParseWorkbookResults(zip) ==
    IF IsMalformed(zip, "workbook") THEN {<<>>, zip.workbook} ELSE {zip.workbook}

\* the workbook part is read: parseWorkbook returns the sheets
WorkbookRead(i) ==
    /\ i \in DOMAIN loads
    /\ loads[i].pc = "workbook"
    /\ \E sheets \in ParseWorkbookResults(loads[i].zip) :
          loads' = [loads EXCEPT ![i] = [zip |-> loads[i].zip, pc |-> "workbookDone",
                                         workbook |-> sheets]]
    /\ UNCHANGED pdfVars
    /\ call' = Null
    /\ UNCHANGED <<themeColors, fonts, fills, borders, cellXfs, sharedStrings, numFmts,
                   currentMaxCol, currentColWidths, currentMDW, sheetTabs, uploadWrapper, tableWrapper,
                   sheetLoads>>

\* await parseWorkbook(zip) is over: processWorkbook(workbook, zip), that is
\* setupTabs and the loadSheet call for the first sheet up to its first await
ProcessWorkbook(i) ==
    /\ i \in DOMAIN loads
    /\ loads[i].pc = "workbookDone"
    /\ Len(sheetLoads) < MaxSheetLoads
    /\ uploadWrapper' = "hide"
    /\ sheetTabs' = Tabs(loads[i].workbook, loads[i].zip)
    /\ IF loads[i].workbook # <<>>
       THEN CallLoadSheet(loads[i].workbook[1], loads[i].zip)
       ELSE UNCHANGED <<sheetLoads, tableWrapper>>
    /\ loads' = Drop(loads, i)
    /\ UNCHANGED pdfVars
    /\ call' = [fn |-> "processWorkbook", arg |-> [zip |-> loads[i].zip.name],
                out |-> loads[i].workbook]
    /\ UNCHANGED <<themeColors, fonts, fills, borders, cellXfs, sharedStrings, numFmts,
                   currentMaxCol, currentColWidths, currentMDW>>

\* the click handler of tab k: the class active moves to the button, then
\* loadSheet(sheet, zip) up to its first await
ClickTab(k) ==
    /\ k \in DOMAIN sheetTabs
    /\ Len(sheetLoads) < MaxSheetLoads
    /\ sheetTabs' = Activate(sheetTabs, k)
    /\ CallLoadSheet(sheetTabs[k].sheet, sheetTabs[k].zip)
    /\ UNCHANGED pdfVars
    /\ call' = Null
    /\ UNCHANGED <<themeColors, fonts, fills, borders, cellXfs, sharedStrings, numFmts,
                   currentMaxCol, currentColWidths, currentMDW, uploadWrapper, loads>>

\* the workbook relationships are read: loadSheet up to the read of the worksheet
RelsRead(i) ==
    /\ i \in DOMAIN sheetLoads
    /\ sheetLoads[i].pc = "rels"
    /\ OpenSheet(sheetLoads[i].sheet, sheetLoads[i].zip, Drop(sheetLoads, i))
    /\ UNCHANGED pdfVars
    /\ call' = Null
    /\ UNCHANGED <<themeColors, fonts, fills, borders, cellXfs, sharedStrings, numFmts,
                   currentMaxCol, currentColWidths, currentMDW, sheetTabs, uploadWrapper, loads>>

\* a workbook of two sheets with every part, the second sheet empty
FullBook ==
    [name |-> "full.xlsx", theme |-> OfficeTheme, styles |-> BookStyles,
     sharedStrings |-> BookStrings,
     workbook |-> <<SheetInfo("Sheet1", "1", "rId1"), SheetInfo("Sheet2", "2", "rId2")>>,
     rels |-> [rId1 |-> "worksheets/sheet1.xml", rId2 |-> "worksheets/sheet2.xml"],
     sheets |-> [p \in {"xl/worksheets/sheet1.xml", "xl/worksheets/sheet2.xml"} |->
                    IF p = "xl/worksheets/sheet1.xml"
                    THEN MakeDoc([q \in {<<1, 1>>} |-> StringCell(1, 0)], <<>>, <<>>, <<>>)
                    ELSE MakeDoc(<<>>, <<>>, <<>>, <<>>)]]

\* a workbook of two sheets with only the workbook part and the first worksheet
BareBook ==
    [name |-> "bare.xlsx", theme |-> Null, styles |-> Null, sharedStrings |-> Null,
     workbook |-> <<SheetInfo("Data", "1", "rId1"), SheetInfo("Gone", "2", "rId2")>>,
     rels |-> Null,
     sheets |-> [p \in {"xl/worksheets/sheet1.xml"} |->
                    MakeDoc([q \in {<<1, 1>>, <<1, 2>>, <<1, 3>>} |->
                                IF q[2] = 1 THEN NumberCell(NoAttr)
                                ELSE IF q[2] = 2 THEN StringCell(NoAttr, 0)
                                ELSE NumberCell(1)],
                            <<>>, <<>>, <<>>)]]

\* a workbook of one sheet with a styles part but neither theme nor shared strings
PlainBook ==
    [name |-> "plain.xlsx", theme |-> Null, styles |-> BookStyles,
     sharedStrings |-> Null,
     workbook |-> <<SheetInfo("Sheet1", "1", "rId1")>>,
     rels |-> Null,
     sheets |-> [p \in {"xl/worksheets/sheet1.xml"} |->
                    MakeDoc([q \in {<<1, 1>>} |-> StringCell(1, 0)], <<>>, <<>>, <<>>)]]

\* a zip that is no workbook
NoBook ==
    [name |-> "none.zip", theme |-> PartialTheme, styles |-> Null, sharedStrings |-> Null,
     workbook |-> Null, rels |-> Null, sheets |-> <<>>]

\* a workbook whose workbook part breaks off after its first sheet element and
\* whose relationship for that sheet points at a part that is not there
BrokenBook ==
    [name |-> "broken.xlsx", theme |-> Null, styles |-> Null, sharedStrings |-> Null,
     workbook |-> <<SheetInfo("Sheet1", "1", "rId1")>>, malformed |-> {"workbook"},
     rels |-> [rId1 |-> "worksheets/lost.xml"],
     sheets |-> [p \in {"xl/worksheets/sheet1.xml"} |->
                    MakeDoc([q \in {<<1, 1>>} |-> NumberCell(NoAttr)], <<>>, <<>>, <<>>)]]

Packages == {FullBook, BareBook, PlainBook, NoBook, BrokenBook}

NextLoad ==
    \/ \E zip \in Packages : HandleFile(zip)
    \/ \E i \in DOMAIN loads : Unzipped(i)
    \/ \E i \in DOMAIN loads : ThemeRead(i)
    \/ \E i \in DOMAIN loads : StylesStart(i)
    \/ \E i \in DOMAIN loads : StylesRead(i)
    \/ \E i \in DOMAIN loads : StringsStart(i)
    \/ \E i \in DOMAIN loads : StringsRead(i)
    \/ \E i \in DOMAIN loads : WorkbookStart(i)
    \/ \E i \in DOMAIN loads : WorkbookRead(i)
    \/ \E i \in DOMAIN loads : ProcessWorkbook(i)
    \/ \E k \in DOMAIN sheetTabs : ClickTab(k)
    \/ \E i \in DOMAIN sheetLoads : RelsRead(i)
    \/ \E i \in DOMAIN sheetLoads : RenderSheet(i)

SpecLoad == Init /\ [][NextLoad]_vars

\* the tables a load of the package builds
TablesOf(zip) ==
    [themeColors |-> ParseThemeResult(zip.theme),
     fonts |-> ParseStylesResult(zip.styles).fonts,
     fills |-> ParseStylesResult(zip.styles).fills,
     borders |-> ParseStylesResult(zip.styles).borders,
     cellXfs |-> ParseStylesResult(zip.styles).cellXfs,
     sharedStrings |-> ParseSharedStringsResult(zip.sharedStrings),
     numFmts |-> ParseStylesResult(zip.styles).numFmts]

\* C2: whenever a sheet is rendered, the palette, the style tables and the shared
\* strings the render reads are the completely built tables of the package the
\* sheet comes from.
C2_RenderReadsOwnTables ==
    (call # Null /\ call.fn = "renderSheet")
        => \A zip \in Packages : zip.name = call.arg.zip => call.out = TablesOf(zip)

\* C16: for a package whose workbook part is missing or not well-formed,
\* processWorkbook is never run and no sheet tab is built; the load of a package
\* without workbook part ends in the alert.
C16_NoWorkbookNoSheetList ==
    \A zip \in Packages :
        (zip.workbook = Null \/ IsMalformed(zip, "workbook"))
            => /\ ~(call # Null /\ call.fn = "processWorkbook"
                                /\ call.arg.zip = zip.name)
               /\ \A k \in DOMAIN sheetTabs : sheetTabs[k].zip.name # zip.name

\* the worksheet part of a listed sheet is not in the package
SheetMissing(sheetInfo, zip) == SheetPath(sheetInfo, zip) \notin DOMAIN zip.sheets

\* a step in which a loadSheet call finds the worksheet part missing: at once in
\* the click handler where there is no relationships part to read, else once the
\* relationships are read
FindsSheetMissing ==
    \/ \E k \in DOMAIN sheetTabs :
          /\ sheetTabs[k].zip.rels = Null
          /\ SheetMissing(sheetTabs[k].sheet, sheetTabs[k].zip)
          /\ ClickTab(k)
    \/ \E i \in DOMAIN sheetLoads :
          /\ SheetMissing(sheetLoads[i].sheet, sheetLoads[i].zip)
          /\ RelsRead(i)

\* the buttons of the tab bar, whichever is active
Buttons(tabs) == [k \in DOMAIN tabs |-> [sheet |-> tabs[k].sheet, zip |-> tabs[k].zip]]

C17_Step ==
    /\ FindsSheetMissing
          => /\ tableWrapper' = LoadError
             /\ UNCHANGED pdfVars
             /\ call' = Null
             /\ Buttons(sheetTabs') = Buttons(sheetTabs)
             /\ UNCHANGED <<uploadWrapper, loads, themeColors, fonts, fills,
                            borders, cellXfs, sharedStrings, numFmts>>
             /\ \A i \in DOMAIN sheetLoads :
                   sheetLoads[i].pc = "xml"
                       => \E j \in DOMAIN sheetLoads' : sheetLoads'[j] = sheetLoads[i]
    /\ \A i \in DOMAIN sheetLoads :
          RenderSheet(i) => tableWrapper'.kind \in {"table", "emptySheet"}

C17_StillLoadable ==
    /\ \A i \in DOMAIN sheetLoads :
          sheetLoads[i].pc = "xml"
              => sheetLoads[i].sheetPath \in DOMAIN sheetLoads[i].zip.sheets
    /\ tableWrapper = LoadError => uploadWrapper = "hide"

\* C17: a loadSheet call that finds the worksheet part missing shows the load
\* error and changes nothing else: the tabs, the tables and the other calls in
\* flight stay, nothing is alerted, so that every tab there was to click is still
\* there.  The error is only ever on show over the preview of a processed
\* workbook, and every worksheet read in flight has its part and ends in a
\* render of a table or of the empty sheet note.
C17_SheetUnavailable == [](C17_StillLoadable) /\ [][C17_Step]_vars

\* the load error is on show while the sheet of the same workbook whose part
\* exists is being read
C17_Witness ==
    /\ tableWrapper = LoadError
    /\ \E i \in DOMAIN sheetLoads :
          /\ sheetLoads[i].pc = "xml"
          /\ sheetLoads[i].sheet.name = "Data"
          /\ sheetLoads[i].zip = sheetTabs[1].zip

(***************************************************************************)
(* One file at a time: a file is only handed over while no handleFile call *)
(* is in flight.                                                           *)
(***************************************************************************)
HandleFileAlone(zip) == loads = <<>> /\ HandleFile(zip)

NextSolo ==
    \/ \E zip \in Packages : HandleFileAlone(zip)
    \/ \E i \in DOMAIN loads : Unzipped(i)
    \/ \E i \in DOMAIN loads : ThemeRead(i)
    \/ \E i \in DOMAIN loads : StylesStart(i)
    \/ \E i \in DOMAIN loads : StylesRead(i)
    \/ \E i \in DOMAIN loads : StringsStart(i)
    \/ \E i \in DOMAIN loads : StringsRead(i)
    \/ \E i \in DOMAIN loads : WorkbookStart(i)
    \/ \E i \in DOMAIN loads : WorkbookRead(i)
    \/ \E i \in DOMAIN loads : ProcessWorkbook(i)
    \/ \E k \in DOMAIN sheetTabs : ClickTab(k)
    \/ \E i \in DOMAIN sheetLoads : RelsRead(i)
    \/ \E i \in DOMAIN sheetLoads : RenderSheet(i)

SpecSolo == Init /\ [][NextSolo]_vars

\* the td carries no style of its own
Unstyled(td) ==
    /\ td.font = Null
    /\ td.color = Null
    /\ td.backgroundColor = Null
    /\ \A side \in Sides : td.border[side] = Null

\* C18: a file handed over alone whose workbook part is there is never answered
\* with the alert, and where a sheet of it is rendered: without theme part the
\* palette is the 12 built-in colours, without styles part the five style tables
\* are empty and no cell carries a style, without shared strings part the string
\* table is empty and every shared-string cell shows the empty text.
C18_AbsentPartsDefaults ==
    /\ (call # Null /\ call.fn = "alert")
          => \A zip \in Packages : zip.name = call.arg.zip => zip.workbook = Null
    /\ (call # Null /\ call.fn = "renderSheet")
          => \A zip \in Packages :
                zip.name = call.arg.zip
                  => /\ zip.theme = Null
                          => /\ call.out.themeColors = DEFAULT_THEME
                             /\ DOMAIN call.out.themeColors = 0..11
                     /\ zip.styles = Null
                          => /\ call.out.fonts = <<>> /\ call.out.fills = <<>>
                             /\ call.out.borders = <<>> /\ call.out.cellXfs = <<>>
                             /\ call.out.numFmts = <<>>
                             /\ Shown => \A p \in DOMAIN tableWrapper.cells :
                                             Unstyled(tableWrapper.cells[p])
                     /\ zip.sharedStrings = Null
                          => /\ call.out.sharedStrings = <<>>
                             /\ Shown
                                  => \A p \in DOMAIN tableWrapper.cells :
                                        LET cellElem == CellAt(tableWrapper.doc, p[1], p[2])
                                        IN  (cellElem # Null /\ cellElem.t = "s")
                                                => tableWrapper.cells[p].text = Str("")

\* the sheet of the workbook without theme, styles and shared strings is
\* rendered: number, shared-string cell and cell with a format index
C18_Witness ==
    /\ call # Null /\ call.fn = "renderSheet" /\ call.arg.zip = "bare.xlsx"
    /\ Shown
    /\ themeColors = DEFAULT_THEME
    /\ cellXfs = <<>>
    /\ tableWrapper.cells[<<1, 2>>].text = Str("")
    /\ Unstyled(tableWrapper.cells[<<1, 3>>])

\* the positions of a merge
RangeOf(merge) == (merge.s.r..merge.e.r) \X (merge.s.c..merge.e.c)

\* C11: of every merge only the first cell is rendered, once, spanning the rows and
\* columns of the merge, and the text and the format shown are those of that cell.
C11_MergeRendersAnchorOnly ==
    Shown =>
        \A i \in DOMAIN tableWrapper.doc.merges :
            LET doc == tableWrapper.doc
                merge == doc.merges[i]
                anchor == <<merge.s.r, merge.s.c>>
            IN  /\ \A p \in RangeOf(merge) \ {anchor} : p \notin DOMAIN tableWrapper.cells
                /\ anchor \in DOMAIN tableWrapper.cells
                /\ tableWrapper.cells[anchor].rowSpan = merge.e.r - merge.s.r + 1
                /\ tableWrapper.cells[anchor].colSpan = merge.e.c - merge.s.c + 1
                /\ LET alone == WithCell(DefaultTd, doc, CellAt(doc, anchor[1], anchor[2]),
                                         resolveStyleIndex(doc, anchor[1], anchor[2]),
                                         anchor[1], anchor[2], tableWrapper.maxCol)
                   IN  /\ tableWrapper.cells[anchor].text = alone.text
                       /\ tableWrapper.cells[anchor].font = alone.font
                       /\ tableWrapper.cells[anchor].color = alone.color
                       /\ tableWrapper.cells[anchor].backgroundColor = alone.backgroundColor
                       /\ tableWrapper.cells[anchor].textAlign = alone.textAlign

(***************************************************************************)
(* The helpers of the sheet renderer called on their own.                  *)
(***************************************************************************)
\* the ySplit / xSplit texts: none, counts, a negative, a fraction, no number, with
\* white space, with a sign, hexadecimal
SplitTexts ==
    {Null, <<"0">>, <<"1">>, <<"2">>, <<"1", "2">>, <<"-", "1">>, <<"1", ".", "5">>,
     <<"a">>, <<" ", "3">>, <<"+", "2">>, <<"0", "x", "1", "0">>}

\* the state attribute, "" for none
PaneStates == {"", "frozen", "frozenSplit", "split"}

Panes ==
    {Null} \cup {Pane(state, xSplit, ySplit) :
                    state \in PaneStates, xSplit \in SplitTexts, ySplit \in SplitTexts}

\* the Excel widths are the eighths up to WidthSteps, from -1 on
WidthSteps == 48

UtilWidths == {Frac(k, 8) : k \in (0 - 8)..WidthSteps} \cup {DefaultWidth, FInt(255)}

\* the max digit widths measureMaxDigitWidth may leave for a default font
UtilMDWs == {5, 6, 7, 8, 9, 10}

MaxColIndex == 800

\* the column-letter strings of one and two letters, and some of three
LetterStrings ==
    UNION {[1..k -> {Letters[i] : i \in DOMAIN Letters}] : k \in 1..2}
    \cup {<<"A", "A", "A">>, <<"A", "D", "Z">>, <<"X", "F", "D">>}

\* other references: with a row, absolute, in lower case, without a column, none
OtherRefs ==
    {Null, <<"B", "1", "2">>, <<"A", "A", "7">>, <<"$", "C", "$", "4">>,
     <<"a", "1">>, <<"1", "0">>}

\* a page before any load, with a max digit width as a render may have left it
InitUtil ==
    /\ TablesInit /\ PageInit
    /\ currentMaxCol = 0 /\ currentColWidths = <<>>
    /\ currentMDW \in UtilMDWs
    /\ call = Null

\* each behaviour is one call of one helper
CallParseFreezePanes ==
    /\ call = Null
    /\ UNCHANGED pdfVars
    /\ \E pane \in Panes :
         call' = [fn |-> "parseFreezePanes", arg |-> pane, out |-> parseFreezePanes(pane)]
    /\ UNCHANGED <<themeColors, fonts, fills, borders, cellXfs, sharedStrings, numFmts,
                   currentMaxCol, currentColWidths, currentMDW, sheetTabs, uploadWrapper, tableWrapper,
                   loads, sheetLoads>>

\* calcColumnWidthPx(w) under a max digit width
CallCalcColumnWidthPx ==
    /\ call = Null
    /\ UNCHANGED pdfVars
    /\ \E w \in UtilWidths :
         call' = [fn |-> "calcColumnWidthPx", arg |-> w,
                  out |-> calcColumnWidthPx(w, currentMDW)]
    /\ UNCHANGED <<themeColors, fonts, fills, borders, cellXfs, sharedStrings, numFmts,
                   currentMaxCol, currentColWidths, currentMDW, sheetTabs, uploadWrapper, tableWrapper,
                   loads, sheetLoads>>

CallColName ==
    /\ call = Null
    /\ UNCHANGED pdfVars
    /\ \E n \in 0..MaxColIndex :
         call' = [fn |-> "colName", arg |-> n, out |-> colName(n)]
    /\ UNCHANGED <<themeColors, fonts, fills, borders, cellXfs, sharedStrings, numFmts,
                   currentMaxCol, currentColWidths, currentMDW, sheetTabs, uploadWrapper, tableWrapper,
                   loads, sheetLoads>>

CallCellRef ==
    /\ call = Null
    /\ UNCHANGED pdfVars
    /\ \E ref \in LetterStrings \cup OtherRefs :
         call' = [fn |-> "cellRef", arg |-> ref, out |-> cellRef(ref)]
    /\ UNCHANGED <<themeColors, fonts, fills, borders, cellXfs, sharedStrings, numFmts,
                   currentMaxCol, currentColWidths, currentMDW, sheetTabs, uploadWrapper, tableWrapper,
                   loads, sheetLoads>>

NextUtil ==
    \/ CallParseFreezePanes
    \/ CallCalcColumnWidthPx
    \/ CallColName
    \/ CallCellRef

SpecUtil == InitUtil /\ [][NextUtil]_vars

\* C12: parseFreezePanes never returns a negative count, says frozen only for a pane
\* whose state is frozen or frozenSplit, and without such a pane returns not frozen
\* with both counts 0.
C12_FreezeCounts ==
    (call # Null /\ call.fn = "parseFreezePanes")
        => /\ call.out.frozenRows >= 0
           /\ call.out.frozenCols >= 0
           /\ call.out.isFrozen
                => call.arg # Null /\ call.arg.state \in {"frozen", "frozenSplit"}
           /\ (call.arg = Null \/ call.arg.state \notin {"frozen", "frozenSplit"})
                => call.out = [frozenRows |-> 0, frozenCols |-> 0, isFrozen |-> FALSE]

\* C14: under one max digit width the pixel width never decreases with the Excel
\* width: a width at least as large gives at least as many pixels.
C14_WidthMonotonic ==
    (call # Null /\ call.fn = "calcColumnWidthPx")
        => \A w \in UtilWidths :
            ~FLess(w, call.arg) => calcColumnWidthPx(w, currentMDW) >= call.out

\* a width above 0 that is given more pixels than a smaller width above 0
C14_Witness ==
    /\ call # Null /\ call.fn = "calcColumnWidthPx"
    /\ \E w \in UtilWidths :
        /\ FLess(FInt(0), w) /\ FLess(w, call.arg)
        /\ calcColumnWidthPx(w, currentMDW) < call.out

\* a string of capital letters
IsLetterString(s) == s # Null /\ \A i \in DOMAIN s : IsLetter(s[i])

\* C15: column names and indices are inverse under bijective base 26: cellRef of
\* colName(n) has column n for n >= 1, with A = 1, Z = 26, AA = 27, and colName of
\* the column of a string of capital letters is that string.
C15_ColumnRoundTrip ==
    /\ (call # Null /\ call.fn = "colName" /\ call.arg >= 1)
        => /\ cellRef(call.out).c = call.arg
           /\ IsLetterString(call.out)
           /\ call.arg <= 26 => call.out = <<Letters[call.arg]>>
           /\ call.arg = 27 => call.out = <<"A", "A">>
    /\ (call # Null /\ call.fn = "cellRef" /\ IsLetterString(call.arg))
        => colName(call.out.c) = call.arg

\* the first column of three letters, named
C15_Witness ==
    /\ call # Null /\ call.fn = "colName"
    /\ call.arg = 703 /\ call.out = <<"A", "A", "A">>

(***************************************************************************)
(* Column widths: one row of cells, a col element for the first column and *)
(* one for the columns after it, with or without a width.                  *)
(***************************************************************************)
ColumnsCols == 3

\* the width attribute as parseFloat reads it: none, 0, below 0, narrow, the default,
\* wider
ColumnWidths ==
    {Null, FInt(0), FInt(0 - 1), Frac(1, 16), FInt(1), DefaultWidth, Frac(25, 2), FInt(40)}

ColumnsDoc(colDefs) ==
    MakeDoc([p \in {1} \X (1..ColumnsCols) |-> NumberCell(NoAttr)], <<>>, colDefs, <<>>)

InitColumns ==
    \E first \in ColumnWidths, rest \in ColumnWidths, both \in BOOLEAN :
        Loaded(Book(BookStyles,
                    ColumnsDoc(IF both
                               THEN <<Col(1, 1, first, NoAttr),
                                      Col(2, ColumnsCols, rest, NoAttr)>>
                               ELSE <<Col(2, 2, first, NoAttr),
                                      Col(1, ColumnsCols - 1, rest, NoAttr)>>)))

NextColumns == \E i \in DOMAIN sheetLoads : RenderSheet(i)

SpecColumns == InitColumns /\ [][NextColumns]_vars

\* the width the worksheet declares for column c: that of the last col element
\* covering it, Null when there is none
DeclaredWidth(doc, c) ==
    LET covering == {i \in DOMAIN doc.cols : doc.cols[i].min <= c /\ c <= doc.cols[i].max}
    IN  IF covering = {} THEN Null ELSE doc.cols[MaxOf(covering)].width

\* C13: a column declared with an Excel width w <= 0 is laid out 0 px wide, one
\* with w > 0 floor(((256 * w + floor(128 / mdw)) / 256) * mdw) + 5 px wide.
C13_DeclaredWidthPx ==
    Shown =>
        \A c \in 1..tableWrapper.maxCol :
            LET w == DeclaredWidth(tableWrapper.doc, c)
            IN  w # Null
                => tableWrapper.colgroup[c]
                     = IF ~FLess(FInt(0), w) THEN 0
                       ELSE FFloor(FMul(FDiv(FAdd(FMul(FInt(256), w),
                                                  FInt(128 \div currentMDW)),
                                             FInt(256)),
                                        FInt(currentMDW))) + 5

\* the side is declared: a border side with a line style
Declared(bs) == bs # Null /\ bs.style # ""

\* C19: where A1 has a format of its own that declares a bottom border and A2 is
\* there without a style on the cell, its row or its column, A1 is rendered with
\* the font of its format and with the declared bottom, top and right sides, and
\* A2 with the default font (none set, or the first font of the table), with no
\* side drawn from a format of its own, and with A1's bottom border as its top.
C19_StyledAboveUnstyled ==
    Shown =>
        LET doc == tableWrapper.doc
            a1 == CellAt(doc, 1, 1)
            a2 == CellAt(doc, 2, 1)
        IN  (/\ a1 # Null /\ a1.s # NoAttr
             /\ At(cellXfs, a1.s) # Null
             /\ At(borders, At(cellXfs, a1.s).borderId) # Null
             /\ Declared(At(borders, At(cellXfs, a1.s).borderId).bottom)
             /\ a2 # Null
             /\ resolveStyleIndex(doc, 2, 1) = NoStyle)
            => LET xf == At(cellXfs, a1.s)
                   b == At(borders, xf.borderId)
                   td1 == tableWrapper.cells[<<1, 1>>]
                   td2 == tableWrapper.cells[<<2, 1>>]
               IN  /\ td1.font = ApplyFont(DefaultTd, xf).font
                   /\ \A side \in {"top", "right", "bottom"} :
                         Declared(b[side]) => td1.border[side] = BorderCss(b[side])
                   /\ td2.font \in {Null, ApplyFont(DefaultTd, [fontId |-> 0]).font}
                   /\ td2.border
                        = InferSides(DefaultTd, doc, 1, 2, 1, tableWrapper.maxCol).border
                   /\ td2.border["top"] = BorderCss(b.bottom)

\* the side facing a side
Opposite(side) ==
    CASE side = "left" -> "right"
      [] side = "right" -> "left"
      [] side = "top" -> "bottom"
      [] OTHER -> "top"

\* the cells outside a merge that touch the given side of its rectangle
Outside(merge, side) ==
    CASE side = "left" -> {<<r, merge.s.c - 1>> : r \in merge.s.r..merge.e.r}
      [] side = "right" -> {<<r, merge.e.c + 1>> : r \in merge.s.r..merge.e.r}
      [] side = "top" -> {<<merge.s.r - 1, c>> : c \in merge.s.c..merge.e.c}
      [] OTHER -> {<<merge.e.r + 1, c>> : c \in merge.s.c..merge.e.c}

\* C20: on each side of a merge's first cell the border is the one the first cell
\* along that edge of the rectangle with a border on that side declares; only
\* where no cell along the edge declares one the side may carry a border, and
\* then the facing side of a cell outside the rectangle that touches the edge.
C20_MergedEdgeFirst ==
    Shown =>
        \A i \in DOMAIN tableWrapper.doc.merges :
            LET doc == tableWrapper.doc
                merge == doc.merges[i]
                anchor == <<merge.s.r, merge.s.c>>
            IN  anchor \in DOMAIN tableWrapper.cells
                => \A side \in Sides :
                      LET found == DeclaredAlong(doc, EdgeCells(merge, side), side)
                          td == tableWrapper.cells[anchor]
                      IN  IF found # Null
                          THEN td.border[side]
                                 = applyBorderSide(DefaultTd, side, found, merge.s.c,
                                                   merge.e.c, tableWrapper.maxCol).border[side]
                          ELSE td.border[side] # Null
                                 => \E q \in Outside(merge, side) :
                                       /\ Declares(doc, q[1], q[2], Opposite(side))
                                       /\ td.border[side]
                                            = BorderCss(getBorderForCell(doc, q[1], q[2])
                                                            [Opposite(side)])

(***************************************************************************)
(* Frozen panes: sheets of up to FreezeRows rows of FreezeCols cells, each *)
(* row missing, without height, or with a height that is custom or not,    *)
(* with no pane, a split one or a frozen one, with or without one merge    *)
(* and a wide first column.                                                *)
(***************************************************************************)
FreezeRows == 3

FreezeCols == 3

\* a row: no row element, no ht, ht without customHeight, ht with customHeight "1"
\* as Excel writes it, ht with customHeight "true"
FreezeRowKinds == {"missing", "plain", "auto", "custom1", "customTrue"}

FreezeSplits == {Null, <<"1">>, <<"2">>}

FreezeMerges ==
    {<<>>, <<Merge(1, 1, 1, 2)>>, <<Merge(1, 1, 2, 1)>>, <<Merge(2, 1, 2, 2)>>,
     <<Merge(1, 2, 2, 3)>>}

FreezeDoc(kinds, pane, merges, colDefs) ==
    LET d == MakeDoc([q \in {p \in (1..FreezeRows) \X (1..FreezeCols) :
                                kinds[p[1]] # "missing"} |-> NumberCell(NoAttr)],
                     <<>>, colDefs, merges)
    IN  [cols |-> d.cols, merges |-> d.merges, pane |-> pane,
         rows |-> [i \in DOMAIN d.rows |->
                     [r |-> d.rows[i].r, s |-> d.rows[i].s, cells |-> d.rows[i].cells,
                      ht |-> CASE kinds[d.rows[i].r] = "plain" -> Null
                               [] kinds[d.rows[i].r] = "auto" -> FInt(15)
                               [] OTHER -> FInt(30),
                      customHeight |-> CASE kinds[d.rows[i].r] = "custom1" -> "1"
                                         [] kinds[d.rows[i].r] = "customTrue" -> "true"
                                         [] OTHER -> ""]]]

InitFreeze ==
    \E kinds \in [1..FreezeRows -> FreezeRowKinds],
       pane \in {Null, Pane("split", <<"1">>, <<"1">>)}
                \cup {Pane("frozen", x, y) : x \in FreezeSplits,
                                             y \in FreezeSplits \cup {<<"3">>}},
       merges \in FreezeMerges,
       colDefs \in {<<>>, <<Col(1, 1, FInt(20), NoAttr)>>} :
        /\ \E r \in 1..FreezeRows : kinds[r] # "missing"
        /\ Loaded(Book(BookStyles, FreezeDoc(kinds, pane, merges, colDefs)))

NextFreeze == \E i \in DOMAIN sheetLoads : RenderSheet(i)

SpecFreeze == InitFreeze /\ [][NextFreeze]_vars

\* the height a body row is rendered with: the one set on it, the default where
\* none is set
RowPx(table, r) ==
    IF r \in DOMAIN table.rowHeight THEN table.rowHeight[r] ELSE FInt(defaultRowHeight)

RECURSIVE RowPxBefore(_, _)
\* the heights of the rows before row k, added up
RowPxBefore(table, k) ==
    IF k <= 1 THEN FInt(0) ELSE FAdd(RowPxBefore(table, k - 1), RowPx(table, k - 1))

\* the last row rendered
LastRowOf(doc) == MaxOf({doc.rows[i].r : i \in DOMAIN doc.rows})

RECURSIVE ColPxBefore(_, _)
\* the widths of the columns before column c, added up
ColPxBefore(table, c) ==
    IF c <= 1 THEN 0 ELSE ColPxBefore(table, c - 1) + table.colgroup[c - 1]

\* C22: in a frozen sheet every rendered cell of a column up to frozenCols has the
\* width of the row header plus the widths of the columns 1..c-1 as its left
\* offset, in every row.
C22_FrozenColLefts ==
    Shown =>
        LET freezeInfo == parseFreezePanes(PaneOf(tableWrapper.doc))
        IN  freezeInfo.isFrozen
            => \A p \in DOMAIN tableWrapper.cells :
                  p[2] <= freezeInfo.frozenCols
                    => /\ p \in DOMAIN tableWrapper.left
                       /\ tableWrapper.left[p]
                            = rowHeaderWidth + ColPxBefore(tableWrapper, p[2])

(***************************************************************************)
(* The tables after parsing.                                               *)
(***************************************************************************)
\* six hexadecimal digits: a base colour as the palette holds it
IsBaseRgb(c) == c # Null /\ Len(c) = 6 /\ \A i \in 1..6 : c[i] \in HexChars

\* the colour a theme part supplies for a slot, Null where it supplies none: the
\* val of the role's srgbClr, else the lastClr of its sysClr
Supplied(part, slot) ==
    LET name == CHOOSE r \in DOMAIN colorMap : colorMap[r] = slot
    IN  IF part = Null \/ ~part.scheme \/ name \notin DOMAIN part.roles THEN Null
        ELSE IF part.roles[name].srgb THEN part.roles[name].val
        ELSE IF part.roles[name].sys THEN part.roles[name].lastClr
        ELSE Null

\* C23: when parseTheme of a file handed over on its own has returned, every slot
\* 0..11 of the palette holds six hexadecimal digits: the colour the theme part
\* supplies for the slot, the default of the slot where it supplies none.
C23_PaletteAfterParseTheme ==
    \A i \in DOMAIN loads :
        loads[i].pc = "themeDone"
          => \A slot \in 0..11 :
                /\ IsBaseRgb(themeColors[slot])
                /\ themeColors[slot]
                     = IF Supplied(loads[i].zip.theme, slot) # Null
                       THEN Supplied(loads[i].zip.theme, slot)
                       ELSE DEFAULT_THEME[slot]

\* C26: no border value written on a rendered cell holds a colour that did not
\* resolve: a declared side whose colour reference does not resolve is written
\* with the default border colour or not written at all.
C26_NoUnresolvedBorderColour ==
    Shown =>
        \A p \in DOMAIN tableWrapper.cells, side \in Sides :
            tableWrapper.cells[p].border[side] # Null
              => tableWrapper.cells[p].border[side].c # Null

(***************************************************************************)
(* parseStyles on its own: one file at a time, its styles part any of a    *)
(* family of base formats and applied formats.                             *)
(***************************************************************************)
MaxBaseXfs == 2

LeftTop == Alignment("left", "top", TRUE, FALSE, 0, 1)

Centered == Alignment("center", "", FALSE, FALSE, 0, 0)

\* cellStyleXfs of up to MaxBaseXfs formats, each with an alignment child or not
BaseXfFamilies ==
    UNION {[1..n -> {[alignment |-> Null], [alignment |-> Centered]}] : n \in 0..MaxBaseXfs}

\* an xf of cellXfs: without xfId or with one in or past the base formats, with
\* applyAlignment missing, "0" or "1", with an alignment child or not
XfFamily ==
    {Xf(0, 0, 0, 0, xfId, applyAlignment, alignment) :
        xfId \in {NoAttr} \cup (0..MaxBaseXfs),
        applyAlignment \in {"", "0", "1"},
        alignment \in {Null, LeftTop}}

StyleBook(baseXfs, xf) ==
    [FullBook EXCEPT !.styles = [BookStyles EXCEPT !.cellStyleXfs = baseXfs,
                                                   !.cellXfs = <<BookCellXfs[1], xf>>]]

HandleStyleBook ==
    \E baseXfs \in BaseXfFamilies, xf \in XfFamily : HandleFileAlone(StyleBook(baseXfs, xf))

NextStyles ==
    \/ HandleStyleBook
    \/ \E i \in DOMAIN loads : Unzipped(i)
    \/ \E i \in DOMAIN loads : ThemeRead(i)
    \/ \E i \in DOMAIN loads : StylesStart(i)
    \/ \E i \in DOMAIN loads : StylesRead(i)
    \/ \E i \in DOMAIN loads : StringsStart(i)
    \/ \E i \in DOMAIN loads : StringsRead(i)
    \/ \E i \in DOMAIN loads : WorkbookStart(i)
    \/ \E i \in DOMAIN loads : WorkbookRead(i)
    \/ \E i \in DOMAIN loads : ProcessWorkbook(i)
    \/ \E k \in DOMAIN sheetTabs : ClickTab(k)
    \/ \E i \in DOMAIN sheetLoads : RelsRead(i)
    \/ \E i \in DOMAIN sheetLoads : RenderSheet(i)

SpecStyles == Init /\ [][NextStyles]_vars

\* parseStyles of the load has returned
StylesParsed(load) == load.pc \notin {"zip", "theme", "themeDone", "styles"}

\* the base format an xf element names, Null where it names none or one that is
\* not there
ParentOf(xf, baseXfs) ==
    IF xf.xfId # NoAttr /\ xf.xfId + 1 \in DOMAIN baseXfs THEN baseXfs[xf.xfId + 1]
    ELSE Null

\* C24: once parseStyles has returned, the table has one format per xf element of
\* cellXfs, and the alignment of each is: none where applyAlignment is "0"; else
\* the element's own alignment where it has one; else the alignment of the base
\* format it names, where it names one that has an alignment; else none.
C24_AlignmentMerge ==
    \A i \in DOMAIN loads :
        StylesParsed(loads[i]) /\ loads[i].zip.styles # Null
          => LET part == loads[i].zip.styles
             IN  /\ Len(cellXfs) = Len(part.cellXfs)
                 /\ \A k \in DOMAIN part.cellXfs :
                      LET xf == part.cellXfs[k]
                          parent == ParentOf(xf, part.cellStyleXfs)
                      IN  cellXfs[k].alignment
                            = IF xf.applyAlignment = "0" THEN Null
                              ELSE IF xf.alignment # Null THEN xf.alignment
                              ELSE IF parent # Null /\ parent.alignment # Null
                                   THEN parent.alignment
                              ELSE Null

\* a format with its own alignment and a base format with another keeps its own
C24_Witness ==
    \E i \in DOMAIN loads :
        /\ StylesParsed(loads[i])
        /\ loads[i].zip.styles # Null
        /\ Len(loads[i].zip.styles.cellXfs) = 2
        /\ LET xf == loads[i].zip.styles.cellXfs[2]
               parent == ParentOf(xf, loads[i].zip.styles.cellStyleXfs)
           IN  /\ xf.applyAlignment = "1"
               /\ xf.alignment = LeftTop
               /\ parent # Null
               /\ parent.alignment = Centered
               /\ Len(cellXfs) = 2
               /\ cellXfs[2].alignment = LeftTop

(***************************************************************************)
(* parseSharedStrings on its own: one file at a time, its shared strings   *)
(* part one string item or three, the item any sequence of up to           *)
(* MaxChildren children: plain text, runs, line breaks, phonetic runs.     *)
(***************************************************************************)
MaxChildren == 2

SiChildren ==
    {T("a"), T(""), Br, R(<<T("b"), Br, T("c")>>), R(<<>>), RPh(<<T("k")>>)}

SiFamily == UNION {[1..n -> SiChildren] : n \in 0..MaxChildren}

StringBook(part) == [FullBook EXCEPT !.sharedStrings = part]

HandleStringBook ==
    \E si \in SiFamily :
        \E part \in {<<si>>, <<<<T("x")>>, si, <<T("y")>>>>} :
            HandleFileAlone(StringBook(part))

NextStrings ==
    \/ HandleStringBook
    \/ \E i \in DOMAIN loads : Unzipped(i)
    \/ \E i \in DOMAIN loads : ThemeRead(i)
    \/ \E i \in DOMAIN loads : StylesStart(i)
    \/ \E i \in DOMAIN loads : StylesRead(i)
    \/ \E i \in DOMAIN loads : StringsStart(i)
    \/ \E i \in DOMAIN loads : StringsRead(i)
    \/ \E i \in DOMAIN loads : WorkbookStart(i)
    \/ \E i \in DOMAIN loads : WorkbookRead(i)
    \/ \E i \in DOMAIN loads : ProcessWorkbook(i)
    \/ \E k \in DOMAIN sheetTabs : ClickTab(k)
    \/ \E i \in DOMAIN sheetLoads : RelsRead(i)
    \/ \E i \in DOMAIN sheetLoads : RenderSheet(i)

SpecStrings == Init /\ [][NextStrings]_vars

\* parseSharedStrings of the load has returned
StringsParsed(load) ==
    load.pc \notin {"zip", "theme", "themeDone", "styles", "stylesDone", "strings"}

RECURSIVE Flat(_, _, _)
\* the texts of the t children and the newlines of the br children from the i-th
\* child on, with the runs flattened where inRuns says so
Flat(children, i, inRuns) ==
    IF i > Len(children) THEN ""
    ELSE (CASE children[i].tag = "t" -> children[i].text
            [] children[i].tag = "br" -> "\n"
            [] children[i].tag = "r" /\ inRuns -> Flat(children[i].kids, 1, FALSE)
            [] OTHER -> "")
         \o Flat(children, i + 1, inRuns)

RECURSIVE TextsOfT(_, _)
\* the texts of all t elements inside the children from the i-th on, in document
\* order
TextsOfT(children, i) ==
    IF i > Len(children) THEN <<>>
    ELSE (IF children[i].tag = "t" THEN <<children[i].text>>
          ELSE TextsOfT(children[i].kids, 1))
         \o TextsOfT(children, i + 1)

\* the text of the first t element anywhere in the item, "" where it has none
NestedT(children) ==
    IF TextsOfT(children, 1) = <<>> THEN "" ELSE TextsOfT(children, 1)[1]

\* sharedStrings holds one entry per item of the part
OnePerItem(load) ==
    StringsParsed(load) /\ load.zip.sharedStrings # Null
      => Len(sharedStrings) = Len(load.zip.sharedStrings)

\* C25, as stated: once parseSharedStrings has returned, the table has one entry
\* per string item in document order, each the item's plain texts, run texts and
\* line breaks (as newlines) in declaration order, and the empty string where the
\* item has none of them.
C25_EntriesAreItemTexts ==
    \A i \in DOMAIN loads :
        /\ OnePerItem(loads[i])
        /\ StringsParsed(loads[i]) /\ loads[i].zip.sharedStrings # Null
             => \A k \in DOMAIN loads[i].zip.sharedStrings :
                    sharedStrings[k] = Flat(loads[i].zip.sharedStrings[k], 1, TRUE)

\* C25, amended: as above, but an item whose plain texts, runs and line breaks
\* give no text yields the text of the first t element anywhere in it, a phonetic
\* run's included, and the empty string only where there is none either.
C25_EntriesWithNestedText ==
    \A i \in DOMAIN loads :
        /\ OnePerItem(loads[i])
        /\ StringsParsed(loads[i]) /\ loads[i].zip.sharedStrings # Null
             => \A k \in DOMAIN loads[i].zip.sharedStrings :
                    LET si == loads[i].zip.sharedStrings[k]
                    IN  sharedStrings[k] = IF Flat(si, 1, TRUE) # "" THEN Flat(si, 1, TRUE)
                                           ELSE NestedT(si)

\* the second of three items is an empty run and a phonetic run, and its entry is
\* the phonetic text; its neighbours are in place
C25_Witness ==
    \E i \in DOMAIN loads :
        /\ StringsParsed(loads[i])
        /\ loads[i].zip.sharedStrings = <<<<T("x")>>, <<R(<<>>), RPh(<<T("k")>>)>>, <<T("y")>>>>
        /\ sharedStrings = <<"x", "k", "y">>

(***************************************************************************)
(* The tab bar and the table on show.                                      *)
(***************************************************************************)
\* what loadSheet puts on show for a tab's sheet when nothing else interferes
ShowsSheetOf(tab) ==
    IF SheetMissing(tab.sheet, tab.zip) THEN tableWrapper = LoadError
    ELSE LET doc == tab.zip.sheets[SheetPath(tab.sheet, tab.zip)]
         IN  IF doc.rows = <<>> THEN tableWrapper = EmptySheet
             ELSE tableWrapper.kind = "table" /\ tableWrapper.doc = doc

\* C27: when no handleFile call and no loadSheet call is in flight, the wrapper
\* shows the sheet of the active tab, the one clicked last: no loadSheet call of
\* an earlier click has written over the outcome of a later one.
C27_ActiveTabShown ==
    (loads = <<>> /\ sheetLoads = <<>>)
        => \A k \in DOMAIN sheetTabs : sheetTabs[k].active => ShowsSheetOf(sheetTabs[k])

\* the rendered cell at p lies over the grid position q
Covers(table, p, q) ==
    /\ p[1] <= q[1] /\ q[1] < p[1] + table.cells[p].rowSpan
    /\ p[2] <= q[2] /\ q[2] < p[2] + table.cells[p].colSpan

\* C28: in a rendered sheet every position (r, c) with r up to the last row and c
\* up to maxCol lies under exactly one rendered cell, its own or the first cell of
\* its merge, in the rows without a row element too.
C28_EveryPositionOnce ==
    Shown =>
        \A r \in 1..LastRowOf(tableWrapper.doc), c \in 1..tableWrapper.maxCol :
            Cardinality({p \in DOMAIN tableWrapper.cells :
                            Covers(tableWrapper, p, <<r, c>>)}) = 1

(***************************************************************************)
(* The PDF viewer (class PDFViewer).  A document is [pageCount]; the viewer *)
(* area is [children], the sequence of its page elements; a page element   *)
(* is [page, scale, renderScale]: its data-page number, the zoom factor    *)
(* its canvas is laid out with and the resolution it was rendered at.  The *)
(* calls in flight are loadFile, renderAllPages and goToOutlineDest, each  *)
(* waiting at one of its awaits.                                           *)
(***************************************************************************)
MaxPages == 3

MaxJumps == 1

MaxZoomEvents == 2

MaxZoomPages == 2

devicePixelRatio == 1

PdfDocument(n) == [pageCount |-> n]

\* Math.max(1, Math.floor(this.scale * devicePixelRatio * 2))
RenderScale(s) ==
    IF FFloor(FMul(s, FInt(devicePixelRatio * 2))) < 1 THEN 1
    ELSE FFloor(FMul(s, FInt(devicePixelRatio * 2)))

PageDiv(pageNumber, s, renderScale) ==
    [page |-> pageNumber, scale |-> s, renderScale |-> renderScale]

\* renderAllPages waiting for page.render of the page at pageIndex
RenderTask(doc, pageIndex, s, alive) ==
    [fn |-> "renderAllPages", doc |-> doc, alive |-> alive, pageIndex |-> pageIndex,
     pc |-> "render", renderScale |-> RenderScale(s)]

\* renderAllPages() up to its first await, with pdfDoc and scale as they are at
\* the call: nothing without a document or a viewer area, else the area is
\* emptied and the first page, if there is one, is asked for
renderAllPages(tasks, doc, s) ==
    IF doc = Null \/ viewerArea = Null
    THEN /\ pdfTasks' = tasks
         /\ UNCHANGED viewerArea
    ELSE /\ pdfTasks' = IF doc.pageCount = 0 THEN tasks
                        ELSE Append(tasks, RenderTask(doc, 0, s, TRUE))
         /\ viewerArea' = [children |-> <<>>]

\* what is left of the call once the page at its pageIndex is done: the next page
\* of the iterator, or the end of the loop
AfterPage(i) ==
    IF pdfTasks[i].pageIndex + 1 < pdfTasks[i].doc.pageCount
    THEN [pdfTasks EXCEPT ![i] = RenderTask(pdfTasks[i].doc, pdfTasks[i].pageIndex + 1,
                                            scale, pdfTasks[i].alive)]
    ELSE Drop(pdfTasks, i)

\* the number of calls of the functions fns in flight
InFlight(fns) == Cardinality({i \in DOMAIN pdfTasks : pdfTasks[i].fn \in fns})

UnchangedByPdf ==
    UNCHANGED <<themeColors, fonts, fills, borders, cellXfs, sharedStrings, numFmts,
                currentMaxCol, currentColWidths, currentMDW, sheetTabs, tableWrapper,
                loads, sheetLoads, call>>

\* the viewer made ready for a file: the upload area is hidden, tool bar and viewer
\* area are built anew
ViewerShown ==
    /\ uploadWrapper' = "hide"
    /\ viewerArea' = [children |-> <<>>]

\* the change or drop handler with a PDF file of n pages: loadFile(file) up to its
\* first await, which is initPDFium() where the library is not there yet, and
\* file.arrayBuffer() where it is.  The upload area is on show until a loadFile
\* hides it.
LoadFile(n) ==
    /\ uploadWrapper = "show"
    /\ \E ready \in BOOLEAN :
          IF ready
          THEN /\ ViewerShown
               /\ pdfTasks' = Append(pdfTasks, [fn |-> "loadFile", doc |-> PdfDocument(n),
                                                pc |-> "loadDocument"])
          ELSE /\ pdfTasks' = Append(pdfTasks, [fn |-> "loadFile", doc |-> PdfDocument(n),
                                                pc |-> "init"])
               /\ UNCHANGED <<uploadWrapper, viewerArea>>
    /\ UNCHANGED <<pdfDoc, pdfjsDoc, currentPage, scale, zoomEvents>>
    /\ UnchangedByPdf

\* initPDFium has returned: loadFile goes on to await file.arrayBuffer() and
\* loadDocument
LibraryReady(i) ==
    /\ i \in DOMAIN pdfTasks
    /\ pdfTasks[i].fn = "loadFile"
    /\ pdfTasks[i].pc = "init"
    /\ ViewerShown
    /\ pdfTasks' = [pdfTasks EXCEPT ![i].pc = "loadDocument"]
    /\ UNCHANGED <<pdfDoc, pdfjsDoc, currentPage, scale, zoomEvents>>
    /\ UnchangedByPdf

\* loadDocument has returned: the document is kept and the first page is current
DocumentLoaded(i) ==
    /\ i \in DOMAIN pdfTasks
    /\ pdfTasks[i].fn = "loadFile"
    /\ pdfTasks[i].pc = "loadDocument"
    /\ pdfDoc' = pdfTasks[i].doc
    /\ currentPage' = 1
    /\ pdfTasks' = [pdfTasks EXCEPT ![i].pc = "pdfjs"]
    /\ UNCHANGED <<pdfjsDoc, scale, viewerArea, zoomEvents>>
    /\ UNCHANGED xlsxVars

\* loadPDFJSForOutline has returned: loadFile goes on to renderAllPages
OutlineLoaded(i) ==
    /\ i \in DOMAIN pdfTasks
    /\ pdfTasks[i].fn = "loadFile"
    /\ pdfTasks[i].pc = "pdfjs"
    /\ pdfjsDoc' = pdfTasks[i].doc
    /\ renderAllPages(Drop(pdfTasks, i), pdfDoc, scale)
    /\ UNCHANGED <<pdfDoc, currentPage, scale, zoomEvents>>
    /\ UNCHANGED xlsxVars

\* page.render has returned: the page element is appended to the viewer area in
\* force, laid out with the scale in force, and renderPage waits for the text
\* layer.  On a destroyed document the render may as well throw, and the loop
\* goes on with the next page.
PageRendered(i) ==
    /\ i \in DOMAIN pdfTasks
    /\ pdfTasks[i].fn = "renderAllPages"
    /\ pdfTasks[i].pc = "render"
    /\ \E thrown \in IF pdfTasks[i].alive THEN {FALSE} ELSE BOOLEAN :
          IF thrown
          THEN /\ pdfTasks' = AfterPage(i)
               /\ UNCHANGED viewerArea
          ELSE /\ viewerArea' = [children |->
                                    Append(viewerArea.children,
                                           PageDiv(pdfTasks[i].pageIndex + 1, scale,
                                                   pdfTasks[i].renderScale))]
               /\ pdfTasks' = [pdfTasks EXCEPT ![i].pc = "textLayer"]
    /\ UNCHANGED <<pdfDoc, pdfjsDoc, currentPage, scale, zoomEvents>>
    /\ UNCHANGED xlsxVars

\* renderTextLayer has returned: the next page, or the end of renderAllPages
TextLayerDone(i) ==
    /\ i \in DOMAIN pdfTasks
    /\ pdfTasks[i].fn = "renderAllPages"
    /\ pdfTasks[i].pc = "textLayer"
    /\ pdfTasks' = AfterPage(i)
    /\ UNCHANGED <<pdfDoc, pdfjsDoc, currentPage, scale, viewerArea, zoomEvents>>
    /\ UNCHANGED xlsxVars

\* a zoom event: the new scale, then renderAllPages() without waiting for it
Zoom(s) ==
    /\ viewerArea # Null
    /\ zoomEvents < MaxZoomEvents
    /\ scale' = s
    /\ zoomEvents' = zoomEvents + 1
    /\ renderAllPages(pdfTasks, pdfDoc, s)
    /\ UNCHANGED <<pdfDoc, pdfjsDoc, currentPage>>
    /\ UNCHANGED xlsxVars

zoomIn == Zoom(FMin(FInt(5), FMul(scale, Frac(6, 5))))

zoomOut == Zoom(FMax(Frac(1, 4), FDiv(scale, Frac(6, 5))))

\* the values of the options of the zoom select
ZoomOptions ==
    {Frac(1, 2), Frac(3, 4), FInt(1), Frac(5, 4), Frac(3, 2), FInt(2), Frac(5, 2), FInt(3)}

\* the change handler of the zoom select
ZoomSelect(value) == Zoom(value)

\* goToPage(pageNum) as far as the current page goes
goToPage(pageNum) ==
    IF pdfDoc = Null \/ pageNum < 1 \/ pageNum > pdfDoc.pageCount
    THEN UNCHANGED currentPage
    ELSE currentPage' = pageNum

prevPage ==
    /\ viewerArea # Null
    /\ IF pdfDoc # Null /\ currentPage > 1
       THEN currentPage' = currentPage - 1
       ELSE UNCHANGED currentPage
    /\ UNCHANGED <<pdfDoc, pdfjsDoc, scale, viewerArea, pdfTasks, zoomEvents>>
    /\ UNCHANGED xlsxVars

\* nextPage with no look at the page count
nextPage_PastLast ==
    /\ viewerArea # Null
    /\ IF pdfDoc # Null
       THEN currentPage' = currentPage + 1
       ELSE UNCHANGED currentPage
    /\ UNCHANGED <<pdfDoc, pdfjsDoc, scale, viewerArea, pdfTasks, zoomEvents>>
    /\ UNCHANGED xlsxVars

nextPage ==
    /\ viewerArea # Null
    /\ IF pdfDoc # Null /\ currentPage < pdfDoc.pageCount
       THEN currentPage' = currentPage + 1
       ELSE UNCHANGED currentPage
    /\ UNCHANGED <<pdfDoc, pdfjsDoc, scale, viewerArea, pdfTasks, zoomEvents>>
    /\ UNCHANGED xlsxVars

\* a call of goToPage(pageNum), as the click on a thumbnail makes it
CallGoToPage(pageNum) ==
    /\ viewerArea # Null
    /\ goToPage(pageNum)
    /\ UNCHANGED <<pdfDoc, pdfjsDoc, scale, viewerArea, pdfTasks, zoomEvents>>
    /\ UNCHANGED xlsxVars

\* the texts typed into the page input
PageInputs ==
    {<<>>, <<"0">>, <<"1">>, <<"2">>, <<"3">>, <<"4">>, <<"-", "1">>, <<"x">>,
     <<"2", ".", "7">>, <<" ", "3">>}

\* the change handler of the page input
PageInputChange(value) ==
    /\ viewerArea # Null
    /\ IF /\ pdfDoc # Null
          /\ ~ParseIntIsNaN(value)
          /\ ParseIntOr0(value) >= 1
          /\ ParseIntOr0(value) <= pdfDoc.pageCount
       THEN goToPage(ParseIntOr0(value))
       ELSE UNCHANGED currentPage
    /\ UNCHANGED <<pdfDoc, pdfjsDoc, scale, viewerArea, pdfTasks, zoomEvents>>
    /\ UNCHANGED xlsxVars

\* the destinations of the bookmarks: a page reference (resolved by getPageIndex),
\* a page index, a name (resolved by getDestination to a page index), or neither
\* string nor array
BookmarkDests ==
    {[kind |-> k, pageIndex |-> x] : k \in {"ref", "index", "name"}, x \in -1..MaxPages}
    \cup {[kind |-> "other", pageIndex |-> 0]}

\* the end of goToOutlineDest: the range check against the document in force,
\* then goToPage
OutlineJump(pageNumber) ==
    IF pdfDoc = Null \/ pageNumber < 1 \/ pageNumber > pdfDoc.pageCount
    THEN UNCHANGED currentPage
    ELSE goToPage(pageNumber)

\* the click on a bookmark: goToOutlineDest(dest) up to its first await, or to its
\* end where it has none
goToOutlineDest(dest) ==
    /\ pdfjsDoc # Null
    /\ InFlight({"goToOutlineDest"}) < MaxJumps
    /\ CASE dest.kind = "other" -> UNCHANGED <<currentPage, pdfTasks>>
         [] dest.kind = "index" ->
                OutlineJump(dest.pageIndex + 1) /\ UNCHANGED pdfTasks
         [] OTHER ->
                /\ pdfTasks' = Append(pdfTasks, [fn |-> "goToOutlineDest",
                                                 pageNumber |-> dest.pageIndex + 1])
                /\ UNCHANGED currentPage
    /\ UNCHANGED <<pdfDoc, pdfjsDoc, scale, viewerArea, zoomEvents>>
    /\ UNCHANGED xlsxVars

\* getDestination or getPageIndex has returned: the rest of goToOutlineDest
DestResolved(i) ==
    /\ i \in DOMAIN pdfTasks
    /\ pdfTasks[i].fn = "goToOutlineDest"
    /\ OutlineJump(pdfTasks[i].pageNumber)
    /\ pdfTasks' = Drop(pdfTasks, i)
    /\ UNCHANGED <<pdfDoc, pdfjsDoc, scale, viewerArea, zoomEvents>>
    /\ UNCHANGED xlsxVars

\* destroy(), a public method of the viewer: both documents are destroyed and
\* dropped, the first page is current
destroy ==
    /\ pdfDoc' = Null
    /\ pdfjsDoc' = Null
    /\ currentPage' = 1
    /\ pdfTasks' = [i \in DOMAIN pdfTasks |->
                      IF pdfTasks[i].fn = "renderAllPages" /\ pdfTasks[i].doc = pdfDoc
                      THEN [pdfTasks[i] EXCEPT !.alive = FALSE]
                      ELSE pdfTasks[i]]
    /\ UNCHANGED <<scale, viewerArea, zoomEvents>>
    /\ UNCHANGED xlsxVars

\* one file handed to the viewer, none before it is through
LoadOneFile(n) == InFlight({"loadFile"}) = 0 /\ LoadFile(n)

\* a viewer, a PDF file of up to MaxPages pages handed to it, and the page controls
NextPdfPages ==
    \/ \E n \in 0..MaxPages : LoadOneFile(n)
    \/ \E i \in DOMAIN pdfTasks : LibraryReady(i)
    \/ \E i \in DOMAIN pdfTasks : DocumentLoaded(i)
    \/ \E i \in DOMAIN pdfTasks : OutlineLoaded(i)
    \/ \E i \in DOMAIN pdfTasks : PageRendered(i)
    \/ \E i \in DOMAIN pdfTasks : TextLayerDone(i)
    \/ prevPage
    \/ nextPage
    \/ \E pageNum \in 0..(MaxPages + 1) : CallGoToPage(pageNum)
    \/ \E value \in PageInputs : PageInputChange(value)
    \/ \E dest \in BookmarkDests : goToOutlineDest(dest)
    \/ \E i \in DOMAIN pdfTasks : DestResolved(i)
    \/ destroy

SpecPdfPages == Init /\ [][NextPdfPages]_vars

\* a viewer, a PDF file of up to MaxZoomPages pages handed to it, and the zoom
\* controls
NextPdfZoom ==
    \/ \E n \in 0..MaxZoomPages : LoadOneFile(n)
    \/ \E i \in DOMAIN pdfTasks : LibraryReady(i)
    \/ \E i \in DOMAIN pdfTasks : DocumentLoaded(i)
    \/ \E i \in DOMAIN pdfTasks : OutlineLoaded(i)
    \/ \E i \in DOMAIN pdfTasks : PageRendered(i)
    \/ \E i \in DOMAIN pdfTasks : TextLayerDone(i)
    \/ zoomIn
    \/ zoomOut
    \/ \E value \in ZoomOptions : ZoomSelect(value)

SpecPdfZoom == Init /\ [][NextPdfZoom]_vars

\* the current page is a page of the document in force
C29_PageWithinCount ==
    /\ currentPage >= 1
    /\ pdfDoc # Null => currentPage <= pdfDoc.pageCount

C29_PageInRange ==
    /\ currentPage >= 1
    /\ (pdfDoc # Null /\ pdfDoc.pageCount >= 1) => currentPage <= pdfDoc.pageCount

C29_Step ==
    /\ (prevPage /\ currentPage = 1) => UNCHANGED currentPage
    /\ (nextPage /\ pdfDoc # Null /\ currentPage >= pdfDoc.pageCount)
          => UNCHANGED currentPage
    /\ \A pageNum \in 0..(MaxPages + 1) :
          (CallGoToPage(pageNum) /\ pdfDoc # Null
             /\ (pageNum < 1 \/ pageNum > pdfDoc.pageCount))
          => UNCHANGED currentPage
    /\ destroy => currentPage' = 1

\* C29: with a document of at least one page loaded the current page is always
\* within 1..pageCount, whatever the order of prevPage, nextPage, goToPage, page
\* input changes and bookmark jumps (with a document of no pages it stays 1);
\* prevPage on page 1, nextPage on the last page and goToPage with a number
\* outside 1..pageCount leave the current page as it is; destroy makes page 1
\* current.
C29_PageNavigation == []C29_PageInRange /\ [][C29_Step]_vars

\* the last page of a document of MaxPages pages is current, with a bookmark
\* jump in flight
C29_Witness ==
    /\ pdfDoc # Null
    /\ pdfDoc.pageCount = MaxPages
    /\ currentPage = MaxPages
    /\ \E i \in DOMAIN pdfTasks : pdfTasks[i].fn = "goToOutlineDest"

\* C30: when no call is in flight, the viewer area of a loaded document holds one
\* page element per page, in page order, each laid out and rendered at the scale
\* in force.
C30_OnePageElementEach ==
    (pdfTasks = <<>> /\ pdfDoc # Null /\ viewerArea # Null)
        => viewerArea.children = [p \in 1..pdfDoc.pageCount |->
                                     PageDiv(p, scale, RenderScale(scale))]

====
